---- MODULE Spec2Model ----
(***************************************************************************)
(* Model of robin_stocks_mcp: the options service (get_options_chain with  *)
(* its two retrieval strategies) on top of the session client.             *)
(*                                                                         *)
(* Python values are encoded as follows.  Strings are TLA+ strings; the    *)
(* value None is the reserved string None.  A dict is a record whose       *)
(* DOMAIN is the set of keys present.  A decimal number is carried in      *)
(* cents (an integer); a double is a record [c, o]: the double nearest to  *)
(* c/100, moved by o units in the last place.                              *)
(***************************************************************************)
EXTENDS Integers, Sequences, FiniteSets, TLC

\* ------------------------------------------------------------------
\* Bounds of the model
\* ------------------------------------------------------------------
MaxListing == 2      \* longest upstream listing (find_tradable_options)
MaxEntries == 2      \* most records in one market-data response
MaxPositions == 2    \* most holdings (get_open_option_positions)

\* ------------------------------------------------------------------
\* Python values
\* ------------------------------------------------------------------
None == "<None>"

\* `not v` for a str-or-None value
Falsy(v) == v \in {None, ""}

\* dict.get(k, d)
Get(item, k, d) == IF k \in DOMAIN item THEN item[k] ELSE d

\* dict.setdefault(k, v), as the dict it leaves behind
SetDefault(item, k, v) ==
    IF k \in DOMAIN item THEN item
    ELSE [f \in DOMAIN item \cup {k} |-> IF f = k THEN v ELSE item[f]]

\* A list entry that is None (or an empty dict): `not item` holds
NoneItem == [py_none |-> "True"]
IsRecord(item) == item # NoneItem

\* str.lower(), str.upper() and `sub in s`, character by character
Letters ==
    [upper |-> <<"A", "B", "C", "D", "E", "F", "G", "H", "I", "J", "K", "L", "M",
                 "N", "O", "P", "Q", "R", "S", "T", "U", "V", "W", "X", "Y", "Z">>,
     lower |-> <<"a", "b", "c", "d", "e", "f", "g", "h", "i", "j", "k", "l", "m",
                 "n", "o", "p", "q", "r", "s", "t", "u", "v", "w", "x", "y", "z">>]

RECURSIVE MapString(_, _, _)
MapString(s, from, to) ==
    IF s = "" THEN ""
    ELSE LET c == SubSeq(s, 1, 1)
             mapped == IF \E k \in 1..Len(from) : from[k] = c
                       THEN to[CHOOSE k \in 1..Len(from) : from[k] = c]
                       ELSE c
         IN  mapped \o MapString(SubSeq(s, 2, Len(s)), from, to)

lower(s) == MapString(s, Letters.upper, Letters.lower)
upper(s) == MapString(s, Letters.lower, Letters.upper)

Contains(s, sub) ==
    \E i \in 1..(Len(s) - Len(sub) + 1) : SubSeq(s, i, i + Len(sub) - 1) = sub

\* The decimal strings that occur in the model, with their value in cents.
\* float(s) succeeds exactly on these strings.
DecimalValue ==
    ("0.00" :> 0) @@ ("2.40" :> 240) @@ ("3.00" :> 300) @@ ("3.60" :> 360) @@
    ("80.00" :> 8000) @@ ("100.00" :> 10000) @@ ("120.00" :> 12000)

IsNumeric(v) == v \in DOMAIN DecimalValue

\* ------------------------------------------------------------------
\* IEEE-754 doubles, as far as the near-the-money band needs them
\* ------------------------------------------------------------------
\* A double is [c |-> cents, o |-> ulps]: RN(c/100) + o ulps, where RN is
\* round-to-nearest-even.  Two doubles whose cents differ are ordered by
\* their cents (a cent is far more than an ulp at these magnitudes).
Double(c, o) == [c |-> c, o |-> o]

\* float(s) of a decimal string: the nearest double
Float(s) == Double(DecimalValue[s], 0)

FloatLt(a, b) == a.c < b.c \/ (a.c = b.c /\ a.o < b.o)
FloatGt(a, b) == FloatLt(b, a)

\* `if current_price:`: a double is truthy unless it is 0.0
FloatTruthy(a) == a.c # 0 \/ a.o # 0

RECURSIVE Pow2(_)
Pow2(n) == IF n = 0 THEN 1 ELSE 2 * Pow2(n - 1)

\* 2^n mod 5 for n >= 0 (period 4: 1, 2, 4, 3)
Pow2Mod5(n) == Pow2(n % 4) % 5

\* floor(log2(num/den)) for num/den >= 1/2, as an integer >= -1
RECURSIVE Log2Floor(_, _)
Log2Floor(num, den) ==
    IF num < den THEN -1
    ELSE IF num < 2 * den THEN 0
    ELSE 1 + Log2Floor(num, 2 * den)

\* round-to-nearest-even of q + num/den, relative to q (den > 0); qOdd
\* tells whether q is odd
RoundNearestEven(num, den, qOdd) ==
    LET f == num \div den
        rem == num - f * den
        fOdd == (f % 2 = 1) # qOdd
    IN  IF 2 * rem < den THEN f
        ELSE IF 2 * rem > den THEN f + 1
        ELSE IF fOdd THEN f + 1 ELSE f

\* The literal a/5 (0.80 is 4/5, 1.20 is 6/5) is itself rounded to a
\* double.  With N0 = a * 2^(52-ef) and r0 = N0 mod 5, the literal is off
\* by LiteralErr(a) fifths of its ulp 2^(ef-52).
LiteralExp(a) == Log2Floor(a, 5)
LiteralErr(a) ==
    LET r0 == ((a % 5) * Pow2Mod5(52 - LiteralExp(a))) % 5
    IN  IF r0 <= 2 THEN -r0 ELSE 5 - r0

\* p * (a/5) in double arithmetic, for a whole number of dollars p >= 2.
\* x = a*p/5 lies in the binade 2^e with ulp u = 2^(e-52); x/u = q + r/5.
\* The exact product of p and the rounded literal is
\*   (q + (r * 2^(e-ef) + p * err) / (5 * 2^(e-ef))) * u
\* and the machine rounds it to nearest-even.  The result is reported
\* relative to RN(x), the double that float() gives for the decimal x.
FloatMul(p, a) ==
    LET e    == Log2Floor(a * p, 5)
        ef   == LiteralExp(a)
        r    == (((a * p) % 5) * Pow2Mod5(52 - e)) % 5
        qOdd == r % 2 = 1
        sh   == Pow2(e - ef)
        prod == RoundNearestEven(r * sh + p * LiteralErr(a), 5 * sh, qOdd)
        near == IF r >= 3 THEN 1 ELSE 0
    IN  Double(20 * a * p, prod - near)


\* ------------------------------------------------------------------
\* Normalisation of a raw record (models/options.py, _build_contract)
\* ------------------------------------------------------------------
\* Optional[float]: [isNone, c] with c the value in cents
NoFloat == [isNone |-> TRUE, c |-> 0]
SomeFloat(c) == [isNone |-> FALSE, c |-> c]

\* models/base.py: a number or a numeric string becomes a float, None and
\* anything that does not parse become None
coerce_numeric(v) == IF IsNumeric(v) THEN SomeFloat(DecimalValue[v]) ELSE NoFloat

\* OptionContract declares symbol: str, expiration: str, strike: float and
\* type: Literal["call", "put"] without Optional: a None in one of them
\* fails validation (pydantic.ValidationError)
OptionContractValid(c) ==
    /\ c.symbol # None
    /\ c.expiration # None
    /\ ~c.strike.isNone
    /\ c.type \in {"call", "put"}

\* mutant: the default is "call"
ContractTypeDefaultCall(item) ==
    IF Get(item, "type", None) = "put" THEN "put" ELSE "call"

\* line 63: "call" if item.get("type") == "call" else "put"
ContractType(item) == IF Get(item, "type", None) = "call" THEN "call" ELSE "put"

\* the integer strings that occur in the model; int(s) succeeds exactly on
\* these strings
IntegerValue == ("0" :> 0) @@ ("500" :> 500) @@ ("1000" :> 1000)

NoInt == [isNone |-> TRUE, n |-> 0]
SomeInt(n) == [isNone |-> FALSE, n |-> n]

\* models/base.py: an integer or an integer string becomes an int, None
\* and anything that does not parse become None
coerce_int(v) == IF v \in DOMAIN IntegerValue THEN SomeInt(IntegerValue[v]) ELSE NoInt

\* mutant: the plain mark is preferred
MarkPricePlainFirst(item) ==
    IF Falsy(Get(item, "mark_price", None))
    THEN Get(item, "adjusted_mark_price", None)
    ELSE Get(item, "mark_price", None)

\* line 66: item.get("adjusted_mark_price") or item.get("mark_price")
MarkPrice(item) ==
    IF Falsy(Get(item, "adjusted_mark_price", None))
    THEN Get(item, "mark_price", None)
    ELSE Get(item, "adjusted_mark_price", None)

\* the keyword arguments _build_contract hands to OptionContract, each
\* numeric one after its field validator
ContractFields(item, symbol, expiration) ==
    [symbol     |-> Get(item, "chain_symbol", symbol),
     expiration |-> Get(item, "expiration_date", expiration),
     strike     |-> coerce_numeric(Get(item, "strike_price", None)),
     type       |-> ContractType(item),
     bid        |-> coerce_numeric(Get(item, "bid_price", None)),
     ask        |-> coerce_numeric(Get(item, "ask_price", None)),
     mark_price |-> coerce_numeric(MarkPrice(item)),
     last_trade_price |-> coerce_numeric(Get(item, "last_trade_price", None)),
     open_interest |-> coerce_int(Get(item, "open_interest", None)),
     volume     |-> coerce_int(Get(item, "volume", None)),
     implied_volatility |-> coerce_numeric(Get(item, "implied_volatility", None)),
     delta      |-> coerce_numeric(Get(item, "delta", None)),
     gamma      |-> coerce_numeric(Get(item, "gamma", None)),
     theta      |-> coerce_numeric(Get(item, "theta", None)),
     vega       |-> coerce_numeric(Get(item, "vega", None)),
     rho        |-> coerce_numeric(Get(item, "rho", None)),
     chance_of_profit_short |->
         coerce_numeric(Get(item, "chance_of_profit_short", None)),
     chance_of_profit_long |->
         coerce_numeric(Get(item, "chance_of_profit_long", None))]

\* _build_contract: the record, or ok = FALSE when the constructor raises
BuildContract(item, symbol, expiration) ==
    LET c == ContractFields(item, symbol, expiration)
    IN  [ok |-> OptionContractValid(c), contract |-> c]


\* ------------------------------------------------------------------
\* Exceptions
\* ------------------------------------------------------------------
NoError == "<no error>"

\* what an upstream (robin_stocks) call may raise
UpstreamExceptions == {"ConnectionError", "AuthRequiredError", "InvalidArgumentError"}

\* str(e) of what an upstream call, the OptionContract constructor or
\* rh.login may raise
Str(exc) ==
    CASE exc = "ConnectionError" -> "connection reset"
      [] exc = "AuthRequiredError" -> "session expired"
      [] exc = "InvalidArgumentError" -> "bad argument"
      [] exc = "ValidationError" -> "1 validation error for OptionContract"
      [] exc = "challenge" -> "challenge required"
      [] exc = "Challenge" -> "Challenge issued, check your device"
      [] OTHER -> "login timed out"

\* mutant: nothing is wrapped
ReraisedAsIs(exc) == exc

\* the except clauses of get_options_chain: the three service errors are
\* re-raised, everything else is wrapped into RobinhoodAPIError
Reraised(exc) ==
    IF exc \in {"RobinhoodAPIError", "InvalidArgumentError", "AuthRequiredError"}
    THEN exc
    ELSE "RobinhoodAPIError"

\* the message of the exception that leaves the except clauses:
\* f"Failed to fetch {what}: {e}" when it is wrapped
ReraisedMessage(what, exc) ==
    IF exc \in {"RobinhoodAPIError", "InvalidArgumentError", "AuthRequiredError"}
    THEN Str(exc)
    ELSE "Failed to fetch " \o what \o ": " \o Str(exc)

\* ------------------------------------------------------------------
\* Arguments and upstream responses the model draws from
\* ------------------------------------------------------------------
Symbols == {None, "", "AAPL"}
RequestedExpirations == {None, "", "2026-05-15"}
OptionTypes == {None, "call", "put", "straddle"}
StrikePrices == {None, "", "2.40", "abc"}

UpstreamDates == {"2026-03-20", "2026-04-17"}

\* the empty list and the lists of two distinct upstream dates, in
\* either order
ExpirationLists ==
    {<<>>} \cup {l \in UpstreamDates \X UpstreamDates : l[1] # l[2]}

\* rh.get_chains: an exception, None, a value that is not a dict, or a
\* dict with or without the key expiration_dates
ChainsResponses ==
    {[exc |-> e, isNone |-> FALSE, isDict |-> FALSE, d |-> [id |-> "x"]] :
        e \in UpstreamExceptions}
    \cup {[exc |-> NoError, isNone |-> TRUE, isDict |-> FALSE, d |-> [id |-> "x"]]}
    \cup {[exc |-> NoError, isNone |-> FALSE, isDict |-> FALSE, d |-> [id |-> "x"]]}
    \cup {[exc |-> NoError, isNone |-> FALSE, isDict |-> TRUE, d |-> [id |-> "x"]]}
    \cup {[exc |-> NoError, isNone |-> FALSE, isDict |-> TRUE,
           d |-> [id |-> "x", expiration_dates |-> l]] : l \in ExpirationLists}

\* raw instrument records of a listing (find_tradable_options): strikes
\* on the band limits of the prices 3 and 100 (and far outside the band
\* of the other price), with and without the optional keys, a strike
\* that is not a number, no strike
ListingItems ==
    {[chain_symbol |-> "AAPL", expiration_date |-> "2026-03-20",
      strike_price |-> "2.40", type |-> "call"],
     [strike_price |-> "3.60"],
     [chain_symbol |-> "AAPL", expiration_date |-> "2026-04-17",
      strike_price |-> "80.00", type |-> "put"],
     [strike_price |-> "120.00", type |-> "CALL"],
     [strike_price |-> "abc", type |-> "call"],
     [chain_symbol |-> "AAPL", type |-> "call"],
     NoneItem}

RECURSIVE SeqsUpTo(_, _)
SeqsUpTo(S, n) ==
    IF n = 0 THEN {<<>>}
    ELSE LET shorter == SeqsUpTo(S, n - 1)
         IN  shorter \cup {Append(l, x) : l \in {m \in shorter : Len(m) = n - 1}, x \in S}

\* rh.find_tradable_options: an exception or a list (None and the empty
\* list are both falsy and are both modelled by the empty list)
ListingResponses ==
    {[exc |-> e, data |-> <<>>] : e \in UpstreamExceptions}
    \cup {[exc |-> NoError, data |-> l] : l \in SeqsUpTo(ListingItems, MaxListing)}

\* rh.get_latest_price: an exception or a list of prices (None and the
\* empty list are both modelled by the empty list)
PriceResponses ==
    {[exc |-> e, prices |-> <<>>] : e \in {"ConnectionError", "AuthRequiredError"}}
    \cup {[exc |-> NoError, prices |-> <<>>]}
    \cup {[exc |-> NoError, prices |-> <<v>>] :
            v \in {None, "abc", "0.00", "3.00", "100.00"}}

\* raw market-data records (get_option_market_data): without the query
\* parameters, with parameters of its own, with a null symbol
MarketDataItems ==
    {[chain_symbol |-> "AAPL"],
     [expiration_date |-> "2026-04-17", strike_price |-> "3.60", type |-> "put"],
     [chain_symbol |-> None],
     NoneItem}

\* one entry of a market-data response: a list of records (one list per
\* symbol) or, when list = FALSE, a single bare record
MarketDataEntries ==
    {[list |-> TRUE, items |-> l] : l \in SeqsUpTo(MarketDataItems, MaxEntries)}
    \cup {[list |-> FALSE, items |-> <<i>>] : i \in MarketDataItems}

\* rh.get_option_market_data for one symbol: an exception or a list with
\* at most one entry (None and the empty list are both the empty list)
MarketDataResponses ==
    {[exc |-> e, md |-> <<>>] : e \in UpstreamExceptions}
    \cup {[exc |-> NoError, md |-> <<>>]}
    \cup {[exc |-> NoError, md |-> <<en>>] : en \in MarketDataEntries}

\* rh.login: a truthy or falsy result, or an exception whose message does
\* or does not contain "challenge"
LoginOutcomes == {"truthy", "falsy", "challenge", "error"}

\* the same, with a message that spells the word with a capital
LoginResults == LoginOutcomes \cup {"Challenge"}

\* rh.login has not been called
NotInvoked == "<not called>"

\* _username and _password after construction (lines 37-38)
Credentials ==
    {[username |-> "user", password |-> "secret"],
     [username |-> None, password |-> None]}
ClientCredentials ==
    Credentials \cup {[username |-> "user", password |-> None],
                      [username |-> "", password |-> "secret"]}

\* _session_path after construction (line 39)
SessionPaths == {None, "/home/user/.tokens"}


\* ------------------------------------------------------------------
\* Pure steps of OptionsService
\* ------------------------------------------------------------------
\* program constants of the near-the-money band: 0.80 = 4/5, 1.20 = 6/5
BandLowFifths == 4
BandHighFifths == 6

\* Optional[float] result of _get_current_price
NoPrice == [isNone |-> TRUE, v |-> Double(0, 0)]

\* _get_current_price: float(prices[0]) when the list and its first
\* element are truthy; None on an exception (of the request or of float)
GetCurrentPrice(resp) ==
    IF resp.exc # NoError THEN NoPrice
    ELSE IF resp.prices = <<>> THEN NoPrice
    ELSE IF Falsy(resp.prices[1]) THEN NoPrice
    ELSE IF ~IsNumeric(resp.prices[1]) THEN NoPrice
    ELSE [isNone |-> FALSE, v |-> Float(resp.prices[1])]

\* `if current_price:`
PriceAvailable(price) == ~price.isNone /\ FloatTruthy(price.v)

\* lower = current_price * 0.80, upper = current_price * 1.20
Lower(current_price) == FloatMul(current_price.c \div 100, BandLowFifths)
Upper(current_price) == FloatMul(current_price.c \div 100, BandHighFifths)

\* the filter of _chain_listing for one record: TRUE when the loop
\* `continue`s.  float(item.get("strike_price", 0)) raises on None and on a
\* non-numeric string, and the except clause lets the record through.
OutOfBand(item, current_price) ==
    LET raw == Get(item, "strike_price", "0.00")
    IN  IF ~IsNumeric(raw) THEN FALSE
        ELSE \/ FloatLt(Float(raw), Lower(current_price))
             \/ FloatGt(Float(raw), Upper(current_price))

\* the records of a listing that reach _build_contract
Retained(options_data, price) ==
    SelectSeq(options_data,
              LAMBDA item : /\ IsRecord(item)
                            /\ (PriceAvailable(price) => ~OutOfBand(item, price.v)))

\* mutant: both types are fetched whatever option_type is
TypesToFetchBoth(option_type) == <<"call", "put">>

\* types_to_fetch of _targeted_lookup
TypesToFetch(option_type) ==
    IF Falsy(option_type) THEN <<"call", "put">> ELSE <<option_type>>

\* `if not entry: continue`
EntryFalsy(entry) ==
    IF entry.list THEN entry.items = <<>> ELSE ~IsRecord(entry.items[1])

\* the records of a market-data response that reach _build_contract
RECURSIVE MarketDataRecords(_)
MarketDataRecords(md) ==
    IF md = <<>> THEN <<>>
    ELSE (IF EntryFalsy(Head(md)) THEN <<>>
          ELSE SelectSeq(Head(md).items, IsRecord))
         \o MarketDataRecords(Tail(md))

\* mutant: the queried type is not injected
InjectNoType(item, ot, strike, expiration) ==
    SetDefault(SetDefault(item, "strike_price", strike),
               "expiration_date", expiration)

\* the three setdefault calls of _targeted_lookup
Inject(item, ot, strike, expiration) ==
    SetDefault(SetDefault(SetDefault(item, "type", ot),
                          "strike_price", strike),
               "expiration_date", expiration)

\* _build_contract over a list of records, in order
BuildAll(items, symbol, expiration) ==
    [ok |-> \A i \in 1..Len(items) : BuildContract(items[i], symbol, expiration).ok,
     contracts |-> [i \in 1..Len(items) |->
                       BuildContract(items[i], symbol, expiration).contract]]

\* mutant: `if symbol is None`
SymbolMissingNoneOnly(sym) == sym = None

\* line 97: `if not symbol`
SymbolMissing(sym) == Falsy(sym)

\* mutant: `if expiration_date is None`
ExpirationOmittedNoneOnly(e) == e = None

\* line 104: `if not expiration_date`
ExpirationOmitted(e) == Falsy(e)

\* mutant: `if strike_price is not None`
StrikeProvidedNotNone(sp) == sp # None

\* line 117: `if strike_price`
StrikeProvided(sp) == ~Falsy(sp)

\* mutant: expirations[-1]
LastExpiration(expirations) == expirations[Len(expirations)]

\* line 111: expirations[0]
NearestExpiration(expirations) == expirations[1]

\* lines 106-108: the expiration dates of a get_chains response; none when
\* the response is None or not a dict or has no such key
Expirations(resp) ==
    IF resp.isNone \/ ~resp.isDict THEN <<>>
    ELSE Get(resp.d, "expiration_dates", <<>>)

\* mutant: an empty set of expirations does not end the call, str(None)
\* is used as the expiration
ResolveExpirationNoReturn(resp) ==
    IF Expirations(resp) = <<>>
    THEN [kind |-> "found", date |-> "None"]
    ELSE [kind |-> "found", date |-> NearestExpiration(Expirations(resp))]

\* lines 106-111: the expiration to use, or "empty" for `return []`
ResolveExpiration(resp) ==
    IF Expirations(resp) = <<>>
    THEN [kind |-> "empty", date |-> None]
    ELSE [kind |-> "found", date |-> NearestExpiration(Expirations(resp))]

\* one upstream request, as recorded by the model
Request(fn, sym, expiration, strike, type) ==
    [fn |-> fn, symbol |-> sym, expirationDate |-> expiration,
     strikePrice |-> strike, optionType |-> type]


\* ------------------------------------------------------------------
\* get_option_positions: holdings and instruments
\* ------------------------------------------------------------------
\* s.rstrip("/")
RECURSIVE RStrip(_)
RStrip(s) ==
    IF Len(s) > 0 /\ SubSeq(s, Len(s), Len(s)) = "/"
    THEN RStrip(SubSeq(s, 1, Len(s) - 1))
    ELSE s

\* s.split("/")[-1]
LastSegment(s) ==
    LET slashes == {i \in 1..Len(s) : SubSeq(s, i, i) = "/"}
        last == IF slashes = {} THEN 0
                ELSE CHOOSE i \in slashes : \A j \in slashes : j <= i
    IN  SubSeq(s, last + 1, Len(s))

\* line 259: option_url.rstrip("/").split("/")[-1]
OptionId(option_url) == LastSegment(RStrip(option_url))

\* raw holdings (get_open_option_positions): with an instrument URL and
\* a symbol, with an empty URL and a quantity that is not a number, with
\* a URL and no symbol, and a null entry
Holdings ==
    {[option |-> "https://api.robinhood.com/options/instruments/abc-123/",
      chain_symbol |-> "AAPL", type |-> "short", quantity |-> "2.40",
      average_price |-> "3.60", created_at |-> "2025-01-15T10:00:00Z",
      updated_at |-> "2025-02-01T15:30:00Z"],
     [option |-> "", chain_symbol |-> "SPY", type |-> "long",
      quantity |-> "abc", average_price |-> "3.00", created_at |-> None],
     [option |-> "https://api.robinhood.com/options/instruments/def-456",
      type |-> "long", quantity |-> "3.00",
      updated_at |-> "2025-02-10T12:00:00Z"],
     NoneItem}

\* rh.get_open_option_positions: an exception or a list (None and the
\* empty list are both modelled by the empty list)
PositionsResponses ==
    {[exc |-> e, data |-> <<>>] : e \in UpstreamExceptions}
    \cup {[exc |-> NoError, data |-> l] : l \in SeqsUpTo(Holdings, MaxPositions)}

\* rh.get_option_instrument_data_by_id: an exception, None, or a dict
InstrumentResponses ==
    {[exc |-> e, instrument |-> NoneItem] : e \in UpstreamExceptions}
    \cup {[exc |-> NoError, instrument |-> d] :
            d \in {NoneItem,
                   [strike_price |-> "3.60", expiration_date |-> "2026-03-20",
                    type |-> "put", chain_symbol |-> "TSLA"]}}

\* `if option_url:`
HasOptionUrl(item) == ~Falsy(Get(item, "option", None))

\* the locals of one loop iteration when nothing was resolved
Unresolved(item) ==
    [symbol |-> Get(item, "chain_symbol", None), strike_price |-> None,
     expiration_date |-> None, option_type |-> None]

\* mutant: the values of a holding without a lookup result are made up
ResolvedWithDefaults(item, resp) ==
    [symbol |-> Get(item, "chain_symbol", None), strike_price |-> "0.00",
     expiration_date |-> "", option_type |-> "call"]

\* lines 250-271: the locals symbol, strike_price, expiration_date and
\* option_type after the lookup; an exception of the lookup is swallowed
\* and leaves them as they were
Resolved(item, resp) ==
    IF HasOptionUrl(item) /\ resp.exc = NoError /\ IsRecord(resp.instrument)
    THEN [symbol |-> IF Falsy(Get(item, "chain_symbol", None))
                     THEN Get(resp.instrument, "chain_symbol", None)
                     ELSE item.chain_symbol,
          strike_price |-> Get(resp.instrument, "strike_price", None),
          expiration_date |-> Get(resp.instrument, "expiration_date", None),
          option_type |-> Get(resp.instrument, "type", None)]
    ELSE Unresolved(item)

\* lines 273-283: the OptionPosition built for one holding
BuildPosition(item, resp) ==
    LET r == Resolved(item, resp)
    IN  [symbol          |-> r.symbol,
         expiration_date |-> r.expiration_date,
         strike_price    |-> coerce_numeric(r.strike_price),
         option_type     |-> r.option_type,
         direction       |-> Get(item, "type", None),
         quantity        |-> coerce_numeric(Get(item, "quantity", None)),
         average_price   |-> coerce_numeric(Get(item, "average_price", None)),
         created_at      |-> Get(item, "created_at", None),
         updated_at      |-> Get(item, "updated_at", None)]

\* ------------------------------------------------------------------
\* server.py: call_tool
\* ------------------------------------------------------------------
\* the tool calls that can be in flight at the same time
MaxTasks == 2
Tasks == 1..MaxTasks

\* the branches of call_tool that await asyncio.to_thread(...)
ThreadTools ==
    {"robinhood.market.current_price", "robinhood.market.price_history",
     "robinhood.market.quote", "robinhood.options.chain",
     "robinhood.options.positions", "robinhood.news.latest",
     "robinhood.fundamentals.get", "robinhood.orders.history"}

\* the branches that call the service (or the client) directly
LoopTools ==
    {"robinhood.portfolio.summary", "robinhood.portfolio.positions",
     "robinhood.watchlists.list", "robinhood.auth.status"}

ToolNames == ThreadTools \cup LoopTools

\* the names a request may carry: a name without a branch as well
RequestedNames == ToolNames \cup {"robinhood.orders.place"}

\* the branches that read arguments[...] and the key they read
RequiredArgument ==
    [n \in {"robinhood.market.current_price", "robinhood.market.quote"} |-> "symbols"]
    @@ [n \in {"robinhood.market.price_history", "robinhood.options.chain",
               "robinhood.news.latest", "robinhood.fundamentals.get"} |-> "symbol"]

\* what the service operation (client.ensure_session for auth.status)
\* does: it returns, or raises one of the four errors or anything else
ServiceExceptions ==
    {"AuthRequiredError", "InvalidArgumentError", "RobinhoodAPIError",
     "NetworkError", "ValueError"}
ServiceOutcomes == {"return"} \cup ServiceExceptions

\* mutant: the NetworkError clause is missing
ErrorKindNoNetwork(exc) ==
    CASE exc = "AuthRequiredError" -> "AUTH_REQUIRED"
      [] exc = "InvalidArgumentError" -> "INVALID_ARGUMENT"
      [] exc = "RobinhoodAPIError" -> "ROBINHOOD_ERROR"
      [] OTHER -> "INTERNAL_ERROR"

\* the except clauses of call_tool (lines 461-489), in their order
ErrorKind(exc) ==
    CASE exc = "AuthRequiredError" -> "AUTH_REQUIRED"
      [] exc = "InvalidArgumentError" -> "INVALID_ARGUMENT"
      [] exc = "RobinhoodAPIError" -> "ROBINHOOD_ERROR"
      [] exc = "NetworkError" -> "NETWORK_ERROR"
      [] OTHER -> "INTERNAL_ERROR"

\* str(e) of what reaches call_tool
ErrorMessage(exc) ==
    CASE exc = "AuthRequiredError" -> "Login failed."
      [] exc = "InvalidArgumentError" -> "Symbol is required"
      [] exc = "RobinhoodAPIError" -> "Failed to fetch options chain: connection reset"
      [] exc = "NetworkError" -> "Failed to authenticate: login timed out"
      [] exc = "KeyError" -> "'symbol'"
      [] OTHER -> "invalid literal"

\* json.dumps({"error": f"{kind}: {e}"})
ErrorPayload(exc) == [error |-> ErrorKind(exc) \o ": " \o ErrorMessage(exc)]

\* the TextContent list call_tool returns for a tool with a branch, given
\* what the service did; auth.status has an except clause of its own for
\* AuthRequiredError (lines 428-436)
Payloads(name, outcome) ==
    IF outcome = "return"
    THEN IF name = "robinhood.auth.status"
         THEN <<[authenticated |-> "true"]>>
         ELSE <<[result |-> name]>>
    ELSE IF name = "robinhood.auth.status" /\ outcome = "AuthRequiredError"
    THEN <<[authenticated |-> "false", error |-> "Authentication required"]>>
    ELSE <<ErrorPayload(outcome)>>

\* the else branch (lines 454-459)
UnknownToolPayloads(name) == <<[error |-> "Unknown tool: " \o name]>>

NoTask == [state |-> "none", name |-> None, outcome |-> None, payloads |-> <<>>]

\* ------------------------------------------------------------------
\* Worker threads on the one client
\* ------------------------------------------------------------------
MaxWorkers == 2
Workers == 1..MaxWorkers

\* a worker thread that is not inside ensure_session
NoWorker == [at |-> "outside", login |-> NotInvoked, raised |-> NoError]


\* ------------------------------------------------------------------
\* Order history (services/orders.py)
\* ------------------------------------------------------------------
MaxOrders == 2       \* most stock orders in one upstream response

\* the arguments of get_order_history
OrderTypes == {None, "", "all", "stock", "Option", "CRYPTO", "bond"}
SymbolFilters == {None, "", "aapl"}
StartDates == {None, "2026-01-01"}

\* mutant: the order type is compared as it was given
NormalisedTypeAsGiven(ot) == IF Falsy(ot) THEN "all" ELSE ot

\* line 36: (order_type or "all").lower()
NormalisedType(ot) == lower(IF Falsy(ot) THEN "all" ELSE ot)

\* line 37
valid_types == {"all", "stock", "option", "crypto"}

\* lines 39-41
InvalidTypeMessage(ot) ==
    "Invalid order type '" \o ot \o "'. Must be one of: all, crypto, option, stock"

\* lines 48, 51, 54: the families a (normalised) order type selects
FetchesStock(ot) == ot \in {"all", "stock"}
FetchesOption(ot) == ot \in {"all", "option"}
FetchesCrypto(ot) == ot \in {"all", "crypto"}

\* what follows the stock orders, and the option orders, of a call
AfterStock(ot) ==
    IF FetchesOption(ot) THEN "get_all_option_orders"
    ELSE IF FetchesCrypto(ot) THEN "get_all_crypto_orders"
    ELSE "return"
AfterOption(ot) == IF FetchesCrypto(ot) THEN "get_all_crypto_orders" ELSE "return"

\* raw stock orders: of two instruments, without an instrument, null
InstrumentUrls ==
    {"https://api.robinhood.com/instruments/aapl/",
     "https://api.robinhood.com/instruments/msft/"}
StockOrderItems ==
    {[id |-> "s1", instrument |-> "https://api.robinhood.com/instruments/aapl/"],
     [id |-> "s2", instrument |-> "https://api.robinhood.com/instruments/msft/"],
     [id |-> "s3"],
     NoneItem}

\* rh.get_all_stock_orders: an exception, or a list (None is as the
\* empty list to `if not raw`)
StockOrderResponses ==
    {[exc |-> e] : e \in {"ConnectionError", "AuthRequiredError"}}
    \cup {[exc |-> NoError, data |-> l] : l \in SeqsUpTo(StockOrderItems, MaxOrders)}

\* the symbol upstream keeps for an instrument
SymbolAt(url) ==
    IF url = "https://api.robinhood.com/instruments/aapl/" THEN "AAPL" ELSE "MSFT"

\* rh.get_instrument_by_url(url): an exception, None, the instrument, or
\* an instrument without its symbol
InstrumentByUrl(url) ==
    {[exc |-> "ConnectionError"],
     [exc |-> NoError, d |-> NoneItem],
     [exc |-> NoError, d |-> [symbol |-> SymbolAt(url)]],
     [exc |-> NoError, d |-> [name |-> "Instrument"]]}

\* raw option orders, and the responses of rh.get_all_option_orders
OptionOrderResponses ==
    {[exc |-> e] : e \in {"ConnectionError", "AuthRequiredError"}}
    \cup {[exc |-> NoError, data |-> l] :
            l \in {<<>>,
                   <<[id |-> "o1", chain_symbol |-> "AAPL"]>>,
                   <<[id |-> "o1", chain_symbol |-> "AAPL"],
                     [id |-> "o2", chain_symbol |-> "MSFT"]>>,
                   <<NoneItem, [id |-> "o3"]>>}}

\* raw crypto orders, and the responses of rh.get_all_crypto_orders
CryptoOrderResponses ==
    {[exc |-> e] : e \in {"ConnectionError", "AuthRequiredError"}}
    \cup {[exc |-> NoError, data |-> l] :
            l \in {<<>>,
                   <<[id |-> "c1", currency_pair_id |-> "btc-usd"], NoneItem>>}}

\* _resolve_stock_symbol (lines 200-210) once the lookup has answered:
\* an exception is swallowed, anything but a record with a symbol gives
\* None
ResolvedSymbol(resp) ==
    IF resp.exc # NoError THEN None
    ELSE IF ~IsRecord(resp.d) THEN None
    ELSE Get(resp.d, "symbol", None)

\* lines 85 and 138: the order is of another symbol than the one asked
\* for
FilteredOut(filter, order_symbol) ==
    /\ ~Falsy(filter)
    /\ ~Falsy(order_symbol)
    /\ upper(order_symbol) # upper(filter)

\* of StockOrder, OptionOrder and CryptoOrder the model keeps the id and
\* the field that names what was traded
StockOrder(item, order_symbol) == [id |-> Get(item, "id", None), symbol |-> order_symbol]
OptionOrder(item) ==
    [id |-> Get(item, "id", None), chain_symbol |-> Get(item, "chain_symbol", None)]
CryptoOrder(item) ==
    [id |-> Get(item, "id", None),
     currency_pair_id |-> Get(item, "currency_pair_id", None)]

\* _get_option_orders, lines 132-163, on the list received
RECURSIVE OptionOrders(_, _)
OptionOrders(raw, filter) ==
    IF raw = <<>> THEN <<>>
    ELSE LET item == Head(raw)
             rest == OptionOrders(Tail(raw), filter)
         IN  IF ~IsRecord(item) THEN rest
             ELSE IF FilteredOut(filter, Get(item, "chain_symbol", None)) THEN rest
             ELSE <<OptionOrder(item)>> \o rest

\* _get_crypto_orders, lines 174-197, on the list received
RECURSIVE CryptoOrders(_)
CryptoOrders(raw) ==
    IF raw = <<>> THEN <<>>
    ELSE IF ~IsRecord(Head(raw)) THEN CryptoOrders(Tail(raw))
    ELSE <<CryptoOrder(Head(raw))>> \o CryptoOrders(Tail(raw))

\* OrderHistory (lines 57-61)
OrderHistory(stock, option, crypto) ==
    [stock_orders |-> stock, option_orders |-> option, crypto_orders |-> crypto]

\* ------------------------------------------------------------------
\* State
\* ------------------------------------------------------------------
VARIABLES
    authenticated,    \* RobinhoodClient._authenticated
    credentials,      \* RobinhoodClient._username and ._password
    session_path,     \* RobinhoodClient._session_path
    login_result,     \* what the last rh.login of the client resulted in
    pc,               \* position of the running get_options_chain call
    symbol, expiration_date, option_type, strike_price,   \* its arguments
    exp,              \* the resolved expiration
    mode,             \* the helper it dispatched to
    types_to_fetch,   \* _targeted_lookup: types still to fetch
    contracts,        \* records built so far
    origin,           \* the raw record each of them was built from
    options_data,     \* _chain_listing: the listing received
    chains_data,      \* response of get_chains
    prices,           \* response of get_latest_price
    md_log,           \* responses of get_option_market_data, in order
    calls,            \* upstream requests issued by the call, in order
    session_checks,   \* ensure_session invocations of the call
    returned,         \* the list the call returned
    raised,           \* the exception the call raised, or NoError
    message,          \* str() of that exception
    caught,           \* the exception its except clauses caught, or NoError
    positions_data,   \* get_option_positions: the holdings received
    next_item,        \* index of the record the loop of the call is at
    positions,        \* the positions built so far
    order_type,       \* get_order_history: the normalised order type
    start_date,       \* its start_date argument
    raw_orders,       \* the stock orders received
    stock_orders, option_orders, crypto_orders,   \* the lists built so far
    client_log,       \* the calls made on a client directly, with their outcome
    workers,          \* worker threads inside ensure_session: their position
    login_calls,      \* rh.login invocations made by the worker threads
    tasks,            \* call_tool: the handler task of each request
    loop_running      \* the task whose blocking call holds the event loop, or 0

serviceVars == <<authenticated, credentials, session_path, login_result, pc, symbol, expiration_date,
          option_type, strike_price, exp, mode, types_to_fetch, contracts,
          origin, options_data, chains_data, prices, md_log, calls,
          session_checks, returned, raised, message, caught,
          positions_data, next_item, positions,
          order_type, start_date, raw_orders, stock_orders, option_orders,
          crypto_orders>>
serverVars == <<tasks, loop_running>>
driverVars == <<client_log, workers, login_calls>>
vars == <<serviceVars, driverVars, serverVars>>

clientVars == <<authenticated, credentials, session_path, login_result>>
argVars == <<symbol, expiration_date, option_type, strike_price>>
positionVars == <<positions_data, next_item, positions>>
orderVars == <<order_type, start_date, raw_orders, stock_orders, option_orders,
               crypto_orders>>

NotCalled == [exc |-> "<not called>"]

\* the requests of the call to one upstream function
RequestsOf(fn) == SelectSeq(calls, LAMBDA r : r.fn = fn)
CountOf(fn) == Len(RequestsOf(fn))

\* no service call is running, nothing has been requested
ServiceIdle ==
    /\ pc = "idle"
    /\ symbol = None /\ expiration_date = None
    /\ option_type = None /\ strike_price = None
    /\ exp = None
    /\ mode = "none"
    /\ types_to_fetch = <<>>
    /\ contracts = <<>>
    /\ origin = <<>>
    /\ options_data = <<>>
    /\ chains_data = NotCalled
    /\ prices = NotCalled
    /\ md_log = <<>>
    /\ calls = <<>>
    /\ session_checks = 0
    /\ returned = <<>>
    /\ raised = NoError
    /\ message = None
    /\ caught = NoError
    /\ positions_data = <<>> /\ next_item = 0 /\ positions = <<>>
    /\ order_type = None /\ start_date = None /\ raw_orders = <<>>
    /\ stock_orders = <<>> /\ option_orders = <<>> /\ crypto_orders = <<>>
    /\ client_log = <<>>
    /\ workers = [w \in Workers |-> NoWorker] /\ login_calls = 0
    /\ tasks = [t \in Tasks |-> NoTask] /\ loop_running = 0

Init ==
    /\ authenticated = FALSE
    /\ credentials \in Credentials
    /\ session_path = None
    /\ login_result = NotInvoked
    /\ ServiceIdle

\* the call ends with `return value`
ReturnList(value) ==
    /\ pc' = "done"
    /\ returned' = value
    /\ raised' = NoError
    /\ message' = None
    /\ caught' = NoError

\* the call ends with an exception raised outside the try block
Raise(exc, msg) ==
    /\ pc' = "done"
    /\ returned' = <<>>
    /\ raised' = exc
    /\ message' = msg
    /\ caught' = NoError

\* mutant: whatever is caught is wrapped
ReraiseWrapped(what, exc) ==
    /\ pc' = "done"
    /\ returned' = <<>>
    /\ raised' = "RobinhoodAPIError"
    /\ message' = "Failed to fetch " \o what \o ": " \o Str(exc)
    /\ caught' = exc

\* an exception reaches the except clauses of a service method: what
\* the method raises in its place
Reraise(what, exc) ==
    /\ pc' = "done"
    /\ returned' = <<>>
    /\ raised' = Reraised(exc)
    /\ message' = ReraisedMessage(what, exc)
    /\ caught' = exc

\* an exception reaches the except clauses of get_options_chain
Fail(exc) == Reraise("options chain", exc)

\* lines 113-122: exp = str(expiration_date), then the helper chosen by
\* `if strike_price:`
Dispatch(e) ==
    /\ exp' = e
    /\ IF StrikeProvided(strike_price)
       THEN /\ mode' = "targeted"
            /\ types_to_fetch' = TypesToFetch(option_type)
            /\ pc' = "get_option_market_data"
       ELSE /\ mode' = "listing"
            /\ types_to_fetch' = <<>>
            /\ pc' = "find_tradable_options"
    /\ UNCHANGED <<returned, raised, message, caught>>

\* get_options_chain is entered: the arguments are bound and the symbol
\* is validated (lines 97-98)
Call(sym, e, ot, sp) ==
    /\ pc = "idle"
    /\ symbol' = sym /\ expiration_date' = e
    /\ option_type' = ot /\ strike_price' = sp
    /\ IF SymbolMissing(sym)
       THEN Raise("InvalidArgumentError", "Symbol is required")
       ELSE pc' = "ensure_session" /\ UNCHANGED <<returned, raised, message, caught>>
    /\ UNCHANGED <<clientVars, exp, mode, types_to_fetch, contracts, origin,
                   options_data, chains_data, prices, md_log, calls,
                   session_checks>>
    /\ UNCHANGED <<positionVars, orderVars, driverVars, serverVars>>

\* mutant: only a client without both is refused
CredentialsMissingBoth(c) == Falsy(c.username) /\ Falsy(c.password)

\* line 61: `not self._username or not self._password`
CredentialsMissing(c) == Falsy(c.username) \/ Falsy(c.password)

\* mutant: the word is looked for as it is spelled
IsChallengeCaseSensitive(e) == Contains(Str(e), "challenge")

\* line 104: `"challenge" in str(e).lower()`
IsChallenge(e) == Contains(lower(Str(e)), "challenge")

\* mutant: the flag is not consulted
SessionActiveNever(flag) == FALSE

\* line 57: `if self._authenticated`
SessionActive(flag) == flag

\* lines 89-112: what ensure_session makes of the result of rh.login
after_login(login) ==
    CASE login = "truthy" ->
           [ok |-> TRUE, exc |-> NoError, msg |-> None, login |-> login]
      [] login = "falsy" ->
           [ok |-> FALSE, exc |-> "AuthRequiredError", msg |-> "Login failed.",
            login |-> login]
      [] login \notin {"truthy", "falsy"} /\ IsChallenge(login) ->
           [ok |-> FALSE, exc |-> "AuthRequiredError",
            msg |-> "Authentication challenge required.", login |-> login]
      [] OTHER ->
           [ok |-> FALSE, exc |-> "NetworkError",
            msg |-> "Failed to authenticate: " \o Str(login), login |-> login]

\* client.ensure_session (client.py lines 57-112) when rh.login, if it
\* comes to be called, results in `login`: whether the session is valid
\* afterwards, the exception raised when it is not, and what rh.login
\* resulted in
ensure_session(login) ==
    IF SessionActive(authenticated)
    THEN [ok |-> TRUE, exc |-> NoError, msg |-> None, login |-> NotInvoked]
    ELSE IF CredentialsMissing(credentials)
    THEN [ok |-> FALSE, exc |-> "AuthRequiredError",
          msg |-> "Authentication required. Please set RH_USERNAME and RH_PASSWORD",
          login |-> NotInvoked]
    ELSE after_login(login)

\* mutant: the flag is set by every call
ClientAfterOptimistic(session) ==
    /\ authenticated' = TRUE
    /\ login_result' = IF session.login = NotInvoked THEN login_result
                       ELSE session.login
    /\ UNCHANGED <<credentials, session_path>>

\* the fields of the client after ensure_session
ClientAfter(session) ==
    /\ authenticated' = session.ok
    /\ login_result' = IF session.login = NotInvoked THEN login_result
                       ELSE session.login
    /\ UNCHANGED <<credentials, session_path>>

\* self.client.ensure_session() at line 100, outside the try block, then
\* lines 104 and 113-122 up to the next upstream request
EnsureSession(login) ==
    /\ pc = "ensure_session"
    /\ session_checks' = session_checks + 1
    /\ LET session == ensure_session(login)
       IN  /\ ClientAfter(session)
           /\ IF ~session.ok
              THEN /\ Raise(session.exc, session.msg)
                   /\ UNCHANGED <<exp, mode, types_to_fetch>>
              ELSE IF ExpirationOmitted(expiration_date)
              THEN /\ pc' = "get_chains"
                   /\ UNCHANGED <<exp, mode, types_to_fetch, returned, raised, message, caught>>
              ELSE Dispatch(expiration_date)
    /\ UNCHANGED <<argVars, contracts, origin, options_data,
                   chains_data, prices, md_log, calls>>
    /\ UNCHANGED <<positionVars, orderVars, driverVars, serverVars>>

\* lines 105-111: rh.get_chains(symbol) and the choice of the expiration
GetChains(resp) ==
    /\ pc = "get_chains"
    /\ calls' = Append(calls, Request("get_chains", symbol, None, None, None))
    /\ chains_data' = resp
    /\ IF resp.exc # NoError
       THEN Fail(resp.exc) /\ UNCHANGED <<exp, mode, types_to_fetch>>
       ELSE IF ResolveExpiration(resp).kind = "empty"
       THEN ReturnList(<<>>) /\ UNCHANGED <<exp, mode, types_to_fetch>>
       ELSE Dispatch(ResolveExpiration(resp).date)
    /\ UNCHANGED <<clientVars, argVars, contracts, origin, options_data,
                   prices, md_log, session_checks>>
    /\ UNCHANGED <<positionVars, orderVars, driverVars, serverVars>>

\* _targeted_lookup, one iteration of `for ot in types_to_fetch`
\* (lines 159-183); the call returns after the last one (line 185)
GetOptionMarketData(resp) ==
    /\ pc = "get_option_market_data"
    /\ types_to_fetch # <<>>
    /\ LET ot == Head(types_to_fetch)
           records == MarketDataRecords(resp.md)
           injected == [i \in 1..Len(records) |->
                           Inject(records[i], ot, strike_price, exp)]
           built == BuildAll(injected, symbol, exp)
       IN  /\ calls' = Append(calls, Request("get_option_market_data", symbol,
                                             exp, strike_price, ot))
           /\ md_log' = Append(md_log, resp)
           /\ IF resp.exc # NoError
              THEN /\ Fail(resp.exc)
                   /\ UNCHANGED <<types_to_fetch, contracts, origin>>
              ELSE IF ~built.ok
              THEN /\ Fail("ValidationError")
                   /\ UNCHANGED <<types_to_fetch, contracts, origin>>
              ELSE /\ contracts' = contracts \o built.contracts
                   /\ origin' = origin \o [i \in 1..Len(records) |->
                                              [item |-> records[i], ot |-> ot]]
                   /\ types_to_fetch' = Tail(types_to_fetch)
                   /\ IF Tail(types_to_fetch) = <<>>
                      THEN ReturnList(contracts')
                      ELSE UNCHANGED <<pc, returned, raised, message, caught>>
    /\ UNCHANGED <<clientVars, argVars, exp, mode, options_data, chains_data,
                   prices, session_checks>>
    /\ UNCHANGED <<positionVars, orderVars, driverVars, serverVars>>

\* mutant: a listing request that raised is made again, up to three times
FindTradableOptionsRetried(resp) ==
    /\ pc = "find_tradable_options"
    /\ calls' = Append(calls, Request("find_tradable_options", symbol, exp,
                                      None, option_type))
    /\ IF resp.exc # NoError /\ CountOf("find_tradable_options") < 2
       THEN UNCHANGED <<pc, returned, raised, message, caught, options_data>>
       ELSE IF resp.exc # NoError
       THEN Fail(resp.exc) /\ UNCHANGED options_data
       ELSE IF resp.data = <<>>
       THEN ReturnList(<<>>) /\ UNCHANGED options_data
       ELSE /\ options_data' = resp.data
            /\ pc' = "get_latest_price"
            /\ UNCHANGED <<returned, raised, message, caught>>
    /\ UNCHANGED <<clientVars, argVars, exp, mode, types_to_fetch, contracts,
                   origin, chains_data, prices, md_log, session_checks>>
    /\ UNCHANGED <<positionVars, orderVars, driverVars, serverVars>>

\* _chain_listing, lines 199-206: rh.find_tradable_options
FindTradableOptions(resp) ==
    /\ pc = "find_tradable_options"
    /\ calls' = Append(calls, Request("find_tradable_options", symbol, exp,
                                      None, option_type))
    /\ IF resp.exc # NoError
       THEN Fail(resp.exc) /\ UNCHANGED options_data
       ELSE IF resp.data = <<>>
       THEN ReturnList(<<>>) /\ UNCHANGED options_data
       ELSE /\ options_data' = resp.data
            /\ pc' = "get_latest_price"
            /\ UNCHANGED <<returned, raised, message, caught>>
    /\ UNCHANGED <<clientVars, argVars, exp, mode, types_to_fetch, contracts,
                   origin, chains_data, prices, md_log, session_checks>>
    /\ UNCHANGED <<positionVars, orderVars, driverVars, serverVars>>

\* _chain_listing, lines 209-228: _get_current_price (rh.get_latest_price),
\* the near-the-money filter and the normalisation of what it retains
GetLatestPrice(resp) ==
    /\ pc = "get_latest_price"
    /\ calls' = Append(calls, Request("get_latest_price", symbol, None, None, None))
    /\ prices' = resp
    /\ LET kept == Retained(options_data, GetCurrentPrice(resp))
           built == BuildAll(kept, symbol, exp)
       IN  IF ~built.ok
           THEN Fail("ValidationError") /\ UNCHANGED <<contracts, origin>>
           ELSE /\ contracts' = built.contracts
                /\ origin' = [i \in 1..Len(kept) |-> [item |-> kept[i], ot |-> None]]
                /\ ReturnList(contracts')
    /\ UNCHANGED <<clientVars, argVars, exp, mode, types_to_fetch, options_data,
                   chains_data, md_log, session_checks>>
    /\ UNCHANGED <<positionVars, orderVars, driverVars, serverVars>>

\* an exception reaches the except clauses of get_option_positions
\* (lines 288-293)
FailPositions(exc) == Reraise("option positions", exc)

\* get_option_positions is entered (it has no arguments)
CallPositions ==
    /\ pc = "idle"
    /\ pc' = "ensure_session_positions"
    /\ mode' = "positions"
    /\ UNCHANGED <<clientVars, argVars, exp, types_to_fetch, contracts, origin,
                   options_data, chains_data, prices, md_log, calls,
                   session_checks, returned, raised, message, caught,
                   positionVars>>
    /\ UNCHANGED <<orderVars, driverVars, serverVars>>

\* mutant: the operation goes on whatever ensure_session did
EnsureSessionPositionsUnchecked(login) ==
    /\ pc = "ensure_session_positions"
    /\ session_checks' = session_checks + 1
    /\ ClientAfter(ensure_session(login))
    /\ pc' = "get_open_option_positions"
    /\ UNCHANGED <<returned, raised, message, caught>>
    /\ UNCHANGED <<argVars, exp, mode, types_to_fetch, contracts,
                   origin, options_data, chains_data, prices, md_log, calls,
                   positionVars>>
    /\ UNCHANGED <<orderVars, driverVars, serverVars>>

\* self.client.ensure_session() at line 237, outside the try block
EnsureSessionPositions(login) ==
    /\ pc = "ensure_session_positions"
    /\ session_checks' = session_checks + 1
    /\ LET session == ensure_session(login)
       IN  /\ ClientAfter(session)
           /\ IF ~session.ok
              THEN Raise(session.exc, session.msg)
              ELSE /\ pc' = "get_open_option_positions"
                   /\ UNCHANGED <<returned, raised, message, caught>>
    /\ UNCHANGED <<argVars, exp, mode, types_to_fetch, contracts,
                   origin, options_data, chains_data, prices, md_log, calls,
                   positionVars>>
    /\ UNCHANGED <<orderVars, driverVars, serverVars>>

\* lines 240-245: rh.get_open_option_positions() and the test for an
\* empty result
GetOpenOptionPositions(resp) ==
    /\ pc = "get_open_option_positions"
    /\ calls' = Append(calls, [fn |-> "get_open_option_positions"])
    /\ IF resp.exc # NoError
       THEN FailPositions(resp.exc) /\ UNCHANGED <<positions_data, next_item>>
       ELSE /\ positions_data' = resp.data
            /\ IF resp.data = <<>> \/ resp.data = <<NoneItem>>
               THEN ReturnList(<<>>) /\ UNCHANGED next_item
               ELSE /\ pc' = "position_loop"
                    /\ next_item' = 1
                    /\ UNCHANGED <<returned, raised, message, caught>>
    /\ UNCHANGED <<clientVars, argVars, exp, mode, types_to_fetch, contracts,
                   origin, options_data, chains_data, prices, md_log,
                   session_checks, positions>>
    /\ UNCHANGED <<orderVars, driverVars, serverVars>>

\* mutant: every holding is looked up
NeedsLookupAlways(item) == IsRecord(item)

\* `if not item or not isinstance(item, dict): continue`, then
\* `if option_url:`
NeedsLookup(item) == IsRecord(item) /\ HasOptionUrl(item)

\* one iteration of `for item in positions_data` (lines 248-285) with
\* its rh.get_option_instrument_data_by_id request, if it makes one; the
\* call returns after the last one (line 287)
ResolvePosition(resp) ==
    /\ pc = "position_loop"
    /\ LET item == positions_data[next_item]
       IN  /\ IF NeedsLookup(item) THEN resp \in InstrumentResponses
                                   ELSE resp = NotCalled
           /\ calls' = IF NeedsLookup(item)
                       THEN Append(calls, [fn |-> "get_option_instrument_data_by_id",
                                           id |-> OptionId(item.option)])
                       ELSE calls
           /\ positions' = IF IsRecord(item)
                           THEN Append(positions, BuildPosition(item, resp))
                           ELSE positions
           /\ origin' = IF IsRecord(item)
                        THEN Append(origin, [item |-> item, lookup |-> resp])
                        ELSE origin
           /\ IF next_item = Len(positions_data)
              THEN ReturnList(positions') /\ UNCHANGED next_item
              ELSE /\ next_item' = next_item + 1
                   /\ UNCHANGED <<pc, returned, raised, message, caught>>
    /\ UNCHANGED <<clientVars, argVars, exp, mode, types_to_fetch, contracts,
                   options_data, chains_data, prices, md_log, session_checks,
                   positions_data>>
    /\ UNCHANGED <<orderVars, driverVars, serverVars>>

\* the caller has taken the result: the locals of the call are gone and
\* the service is ready for another call
Finish ==
    /\ pc = "done"
    /\ pc' = "idle"
    /\ symbol' = None /\ expiration_date' = None
    /\ option_type' = None /\ strike_price' = None
    /\ exp' = None /\ mode' = "none" /\ types_to_fetch' = <<>>
    /\ contracts' = <<>> /\ origin' = <<>> /\ options_data' = <<>>
    /\ chains_data' = NotCalled /\ prices' = NotCalled /\ md_log' = <<>>
    /\ calls' = <<>> /\ session_checks' = 0
    /\ returned' = <<>> /\ raised' = NoError /\ message' = None /\ caught' = NoError
    /\ positions_data' = <<>> /\ next_item' = 0 /\ positions' = <<>>
    /\ order_type' = None /\ start_date' = None /\ raw_orders' = <<>>
    /\ stock_orders' = <<>> /\ option_orders' = <<>> /\ crypto_orders' = <<>>
    /\ UNCHANGED clientVars
    /\ UNCHANGED <<driverVars, serverVars>>

\* mutant: an exception of rh.logout is let through
logoutUnguarded(rh_raises, unlink_raises) ==
    [raised |-> IF rh_raises THEN "Exception" ELSE NoError,
     authenticated |-> IF rh_raises THEN authenticated ELSE FALSE,
     unlinked |-> ~rh_raises /\ ~Falsy(session_path) /\ ~unlink_raises]

\* client.logout (client.py lines 114-129) when rh.logout and the
\* removal of the pickle file do or do not raise: both exceptions are
\* swallowed, the flag is cleared in between
logout(rh_raises, unlink_raises) ==
    [raised |-> NoError,
     authenticated |-> FALSE,
     unlinked |-> ~Falsy(session_path) /\ ~unlink_raises]

\* client.logout is called between two service calls
Logout(rh_raises, unlink_raises) ==
    /\ pc = "idle"
    /\ LET out == logout(rh_raises, unlink_raises)
       IN  /\ authenticated' = out.authenticated
           /\ raised' = out.raised
    /\ UNCHANGED <<credentials, session_path, login_result, pc, argVars, exp,
                   mode, types_to_fetch, contracts, origin, options_data,
                   chains_data, prices, md_log, calls, session_checks,
                   returned, message, caught>>
    /\ UNCHANGED <<positionVars, orderVars, driverVars, serverVars>>

Next ==
    \/ \E sym \in Symbols, e \in RequestedExpirations,
          ot \in OptionTypes, sp \in StrikePrices : Call(sym, e, ot, sp)
    \/ \E login \in LoginOutcomes : EnsureSession(login)
    \/ \E resp \in ChainsResponses : GetChains(resp)
    \/ \E resp \in MarketDataResponses : GetOptionMarketData(resp)
    \/ \E resp \in ListingResponses : FindTradableOptions(resp)
    \/ \E resp \in PriceResponses : GetLatestPrice(resp)
    \/ CallPositions
    \/ \E login \in LoginOutcomes : EnsureSessionPositions(login)
    \/ \E resp \in PositionsResponses : GetOpenOptionPositions(resp)
    \/ \E resp \in InstrumentResponses \cup {NotCalled} : ResolvePosition(resp)
    \/ Finish
    \/ \E rh_raises \in BOOLEAN, unlink_raises \in BOOLEAN :
          Logout(rh_raises, unlink_raises)

Spec == Init /\ [][Next]_vars


\* ==================================================================
\* Properties
\* ==================================================================
TypesRequested ==
    [i \in 1..CountOf("get_option_market_data") |->
        RequestsOf("get_option_market_data")[i].optionType]
\* a get_options_chain call is under way, has ended
ChainCall == pc # "idle" /\ mode # "positions"
ChainDone == pc = "done" /\ mode # "positions"

CountType(list, ty) == Cardinality({i \in 1..Len(list) : list[i].type = ty})

\* C1: a call with an empty or missing symbol raises InvalidArgumentError
\* at once: its session is never checked and no upstream request is made,
\* whatever the other arguments are.
C1_EmptySymbolRaisesFirst ==
    (ChainCall /\ Falsy(symbol)) =>
        /\ pc = "done"
        /\ raised = "InvalidArgumentError"
        /\ returned = <<>>
        /\ session_checks = 0
        /\ calls = <<>>

C1_Witness ==
    /\ pc = "done" /\ symbol = ""
    /\ expiration_date = "2026-05-15" /\ option_type = "call"
    /\ strike_price = "2.40"
    /\ raised = "InvalidArgumentError"

\* C2: the helper is chosen by the presence of strike_price alone.  With a
\* strike the call never issues a listing or a reference-price request;
\* without one it never issues a market-data request and, once it has
\* dispatched, it issues exactly one listing request.
C2_ModeByStrikeOnly ==
    /\ mode # "none" => (mode = "targeted" <=> ~Falsy(strike_price))
    /\ ~Falsy(strike_price) =>
          /\ CountOf("find_tradable_options") = 0
          /\ CountOf("get_latest_price") = 0
    /\ Falsy(strike_price) => CountOf("get_option_market_data") = 0
    /\ (mode = "listing" /\ pc \in {"get_latest_price", "done"}) =>
          CountOf("find_tradable_options") = 1

C2_Witness ==
    /\ pc = "done" /\ mode = "targeted"
    /\ option_type = None /\ expiration_date = None
    /\ CountOf("get_option_market_data") = 2
    /\ Len(returned) > 0

\* C3 as claimed: every targeted lookup issues one market-data request
\* per type to resolve, whatever the requests come back with.
C3_OneRequestPerType ==
    (pc = "done" /\ mode = "targeted") =>
        TypesRequested = (IF Falsy(option_type) THEN <<"call", "put">>
                          ELSE <<option_type>>)

\* C3 as amended: a targeted lookup that returns has issued exactly one
\* market-data request per type to resolve, keyed by the given type or by
\* call then put, whatever the responses hold; one that raises stopped at
\* the request that failed and has issued no more than that.
C3_OneRequestPerTypeUnlessRaised ==
    (pc = "done" /\ mode = "targeted") =>
        LET expected == IF Falsy(option_type) THEN <<"call", "put">>
                        ELSE <<option_type>>
        IN  /\ raised = NoError => TypesRequested = expected
            /\ raised # NoError =>
                  /\ TypesRequested # <<>>
                  /\ Len(TypesRequested) <= Len(expected)
                  /\ TypesRequested = SubSeq(expected, 1, Len(TypesRequested))

C3_Witness ==
    /\ pc = "done" /\ mode = "targeted" /\ raised = NoError
    /\ Falsy(option_type)
    /\ Len(md_log) = 2
    /\ md_log[1].md = <<>>
    /\ md_log[2].md # <<>>
    /\ TypesRequested = <<"call", "put">>

\* the record entries of the i-th market-data response
RecordsOfResponse(i) == MarketDataRecords(md_log[i].md)

\* every market-data response carries at most one record, whose type is
\* absent or the type that was asked for
WellFormedMarketData ==
    \A i \in 1..Len(md_log) :
        /\ Len(RecordsOfResponse(i)) <= 1
        /\ \A j \in 1..Len(RecordsOfResponse(i)) :
              Get(RecordsOfResponse(i)[j], "type", TypesRequested[i])
                  = TypesRequested[i]

PriceGiven ==
    /\ prices.exc = NoError
    /\ prices.prices # <<>>
    /\ IsNumeric(prices.prices[1])
ReferenceCents == DecimalValue[prices.prices[1]]

\* 0.80 * P <= s <= 1.20 * P in exact arithmetic, s and P in cents
InBandExact(item, P) ==
    /\ IsRecord(item)
    /\ IsNumeric(Get(item, "strike_price", None))
    /\ 80 * P <= 100 * DecimalValue[item.strike_price]
    /\ 100 * DecimalValue[item.strike_price] <= 120 * P

StrikesOf(list) == [i \in 1..Len(list) |-> list[i].strike.c]

\* C5: a listing call that returns with a reference price P > 0 returns
\* exactly the entries whose strike lies in [0.80 * P, 1.20 * P], limits
\* included, in upstream order.
C5_BandInclusive ==
    (pc = "done" /\ mode = "listing" /\ raised = NoError
        /\ prices # NotCalled /\ PriceGiven /\ ReferenceCents > 0) =>
        LET inBand == SelectSeq(options_data,
                                LAMBDA item : InBandExact(item, ReferenceCents))
        IN  StrikesOf(returned) =
                [i \in 1..Len(inBand) |-> DecimalValue[inBand[i].strike_price]]

\* the reference-price lookup raised or gave an empty or null result
PriceLookupFailed ==
    \/ prices.exc # NoError
    \/ prices.prices = <<>>
    \/ prices.prices[1] = None

\* C6: when the reference-price lookup fails, a listing call does not
\* raise and returns one record for every record of the listing, in
\* upstream order.
C6_FailOpen ==
    (pc = "done" /\ mode = "listing" /\ prices # NotCalled /\ PriceLookupFailed) =>
        LET records == SelectSeq(options_data, IsRecord)
        IN  /\ raised = NoError
            /\ Len(returned) = Len(records)
            /\ \A i \in 1..Len(records) :
                  Get(records[i], "strike_price", None) # None
                  => IsNumeric(records[i].strike_price)
                     /\ returned[i].strike.c = DecimalValue[records[i].strike_price]

\* upstream gave a non-empty list of expiration dates
ChainsFound ==
    /\ chains_data.exc = NoError
    /\ ~chains_data.isNone /\ chains_data.isDict
    /\ "expiration_dates" \in DOMAIN chains_data.d
    /\ chains_data.d.expiration_dates # <<>>

DataRequests ==
    SelectSeq(calls, LAMBDA r :
                  r.fn \in {"find_tradable_options", "get_option_market_data"})

SessionEstablished == session_checks = 1 /\ authenticated

\* C8: a call with a non-empty requested expiration issues no expirations
\* request and sends the requested string in its listing and market-data
\* requests; a call without one that has its session issues exactly one
\* expirations request, before any other request.
C8_ExpirationsRequestOnlyWhenOmitted ==
    ChainCall =>
        /\ ~Falsy(expiration_date) =>
              /\ CountOf("get_chains") = 0
              /\ \A i \in 1..Len(DataRequests) :
                    DataRequests[i].expirationDate = expiration_date
        /\ Falsy(expiration_date) =>
              /\ CountOf("get_chains") <= 1
              /\ (SessionEstablished /\ pc \notin {"ensure_session", "get_chains"}) =>
                    (CountOf("get_chains") = 1 /\ calls[1].fn = "get_chains")

C8_Witness ==
    /\ pc = "done" /\ expiration_date = "2026-05-15"
    /\ Len(DataRequests) = 2
    /\ DataRequests[2].expirationDate = "2026-05-15"
    /\ CountOf("get_chains") = 0

\* C9: when upstream gives no chain data or no expiration dates, the call
\* returns the empty list without raising, and the expirations request is
\* the only request it has made, with or without a strike.
C9_NoExpirationsReturnsEmpty ==
    (/\ chains_data.exc = NoError
     /\ \/ chains_data.isNone
        \/ ~chains_data.isDict
        \/ Get(chains_data.d, "expiration_dates", <<>>) = <<>>) =>
        /\ pc = "done"
        /\ raised = NoError
        /\ returned = <<>>
        /\ Len(calls) = 1 /\ calls[1].fn = "get_chains"

C9_Witness ==
    /\ pc = "done" /\ ~Falsy(strike_price)
    /\ chains_data.exc = NoError /\ chains_data.isDict
    /\ "expiration_dates" \in DOMAIN chains_data.d
    /\ chains_data.d.expiration_dates = <<>>
    /\ returned = <<>> /\ raised = NoError

\* C10 as claimed: every returned record is a call when the upstream type
\* field is the literal "call" and a put when it is absent or anything
\* else, in either mode.
C10_TypeFromUpstreamField ==
    (ChainDone /\ raised = NoError) =>
        \A i \in 1..Len(returned) :
            /\ returned[i].type \in {"call", "put"}
            /\ returned[i].type =
                  (IF Get(origin[i].item, "type", None) = "call"
                   THEN "call" ELSE "put")

\* C10 as amended: every returned record is a call or a put, never null:
\* a call when the upstream type field is the literal "call", a put for
\* any other value of it; when the field is absent the record is a put in
\* a listing, and in a targeted lookup it is a call if the requested type
\* is "call" and a put otherwise.
C10_TypeFromUpstreamFieldOrRequest ==
    (ChainDone /\ raised = NoError) =>
        \A i \in 1..Len(returned) :
            LET given == IF mode = "targeted"
                         THEN Get(origin[i].item, "type", origin[i].ot)
                         ELSE Get(origin[i].item, "type", None)
            IN  /\ returned[i].type \in {"call", "put"}
                /\ returned[i].type = (IF given = "call" THEN "call" ELSE "put")

C10_Witness ==
    /\ pc = "done" /\ raised = NoError /\ mode = "targeted"
    /\ Len(returned) = 2
    /\ "type" \notin DOMAIN origin[1].item
    /\ "type" \notin DOMAIN origin[2].item
    /\ returned[1].type = "call" /\ returned[2].type = "put"
    /\ option_type = None


\* ------------------------------------------------------------------
\* _build_contract on one raw record
\* ------------------------------------------------------------------
EmptyDict == [k \in {} |-> None]

\* a key that is absent or carries one of the values
Optional(k, values) == {EmptyDict} \cup {k :> v : v \in values}

\* raw records as either upstream endpoint may deliver them: every key
\* but type may be absent, null, empty, numeric or not numeric
RawRecords ==
    {[type |-> "call"] @@ s @@ a @@ m @@ b @@ o :
        s \in Optional("strike_price", {"80.00", "abc"}),
        a \in Optional("adjusted_mark_price", {None, "", "2.40", "abc"}),
        m \in Optional("mark_price", {None, "3.60", "abc"}),
        b \in Optional("bid_price", {"2.40", "abc"}),
        o \in Optional("open_interest", {"1000", "abc"})}

BuildInit ==
    /\ authenticated = TRUE
    /\ credentials = [username |-> "user", password |-> "secret"]
    /\ session_path = None
    /\ login_result = "truthy"
    /\ pc = "build"
    /\ symbol = "AAPL" /\ expiration_date = "2026-05-15"
    /\ option_type = None /\ strike_price = None
    /\ exp = "2026-05-15"
    /\ mode = "none"
    /\ types_to_fetch = <<>>
    /\ contracts = <<>>
    /\ origin = <<>>
    /\ options_data \in {<<item>> : item \in RawRecords}
    /\ chains_data = NotCalled
    /\ prices = NotCalled
    /\ md_log = <<>>
    /\ calls = <<>>
    /\ session_checks = 0
    /\ returned = <<>>
    /\ raised = NoError
    /\ message = None
    /\ caught = NoError
    /\ positions_data = <<>> /\ next_item = 0 /\ positions = <<>>
    /\ order_type = None /\ start_date = None /\ raw_orders = <<>>
    /\ stock_orders = <<>> /\ option_orders = <<>> /\ crypto_orders = <<>>
    /\ client_log = <<>>
    /\ workers = [w \in Workers |-> NoWorker] /\ login_calls = 0
    /\ tasks = [t \in Tasks |-> NoTask] /\ loop_running = 0

\* _build_contract(item, symbol, expiration): the record, or the
\* ValidationError of the constructor
Normalise ==
    /\ pc = "build"
    /\ pc' = "built"
    /\ LET built == BuildContract(options_data[1], symbol, exp)
       IN  IF built.ok
           THEN contracts' = <<built.contract>> /\ UNCHANGED <<raised, message, caught>>
           ELSE /\ raised' = "ValidationError"
                /\ message' = Str("ValidationError")
                /\ UNCHANGED caught
                /\ UNCHANGED contracts
    /\ UNCHANGED <<clientVars, argVars, exp, mode, types_to_fetch, origin,
                   options_data, chains_data, prices, md_log, calls,
                   session_checks, returned>>
    /\ UNCHANGED <<positionVars, orderVars, driverVars, serverVars>>

BuildNext == Normalise

SpecBuild == BuildInit /\ [][BuildNext]_vars

\* ------------------------------------------------------------------
\* call_tool as tasks of the event loop
\* ------------------------------------------------------------------
\* a tools/call request arrives: the server creates the task of its
\* handler, which waits for the event loop
Receive(t, name) ==
    /\ tasks[t].state \in {"none", "returned"}
    /\ tasks' = [tasks EXCEPT ![t] = [state |-> "ready", name |-> name,
                                      outcome |-> None, payloads |-> <<>>]]
    /\ UNCHANGED <<serviceVars, driverVars, loop_running>>

\* call_tool has returned: the response of the task
Returned(outcome, payloads) ==
    [state |-> "returned", name |-> None, outcome |-> outcome,
     payloads |-> payloads]

\* the event loop runs the handler of t from its start (line 299) to its
\* first suspension, to its return, or into a blocking call
Start(t, present) ==
    /\ tasks[t].state = "ready"
    /\ loop_running = 0
    /\ LET name == tasks[t].name
       IN  /\ present \/ name \in DOMAIN RequiredArgument
           /\ IF name \notin ToolNames
              THEN /\ tasks' = [tasks EXCEPT
                                   ![t] = Returned("unknown", UnknownToolPayloads(name))]
                   /\ UNCHANGED loop_running
              ELSE IF ~present
              THEN /\ tasks' = [tasks EXCEPT
                                   ![t] = Returned("KeyError", <<ErrorPayload("KeyError")>>)]
                   /\ UNCHANGED loop_running
              ELSE IF name \in ThreadTools
              THEN /\ tasks' = [tasks EXCEPT ![t].state = "awaiting_thread"]
                   /\ UNCHANGED loop_running
              ELSE /\ tasks' = [tasks EXCEPT ![t].state = "blocking"]
                   /\ loop_running' = t
    /\ UNCHANGED <<serviceVars, driverVars>>

\* the worker thread has finished the service operation and the event
\* loop resumes the handler after `await asyncio.to_thread(...)`
Resume(t, outcome) ==
    /\ tasks[t].state = "awaiting_thread"
    /\ loop_running = 0
    /\ tasks' = [tasks EXCEPT ![t] = Returned(outcome, Payloads(tasks[t].name, outcome))]
    /\ UNCHANGED <<serviceVars, driverVars, loop_running>>

\* the service operation called on the event loop's own thread finishes
\* and the handler returns
Unblock(t, outcome) ==
    /\ tasks[t].state = "blocking"
    /\ loop_running = t
    /\ tasks' = [tasks EXCEPT ![t] = Returned(outcome, Payloads(tasks[t].name, outcome))]
    /\ loop_running' = 0
    /\ UNCHANGED <<serviceVars, driverVars>>

ServerNext ==
    \/ \E t \in Tasks, name \in RequestedNames : Receive(t, name)
    \/ \E t \in Tasks, present \in BOOLEAN : Start(t, present)
    \/ \E t \in Tasks, outcome \in ServiceOutcomes : Resume(t, outcome)
    \/ \E t \in Tasks, outcome \in ServiceOutcomes : Unblock(t, outcome)

SpecServer == Init /\ [][ServerNext]_vars

\* ------------------------------------------------------------------
\* get_order_history
\* ------------------------------------------------------------------
FailOrders(exc) == Reraise("order history", exc)

\* the order families have been dealt with up to `next`: the next
\* request, or the return of the OrderHistory (lines 57-61)
Proceed(next, stock, option, crypto) ==
    IF next = "return"
    THEN ReturnList(<<OrderHistory(stock, option, crypto)>>)
    ELSE pc' = next /\ UNCHANGED <<returned, raised, message, caught>>

\* what a step of get_order_history leaves unchanged
OrdersFrame ==
    /\ UNCHANGED <<expiration_date, option_type, strike_price, exp,
                   types_to_fetch, contracts, origin, options_data,
                   chains_data, prices, md_log, positions_data, positions>>
    /\ UNCHANGED <<driverVars, serverVars>>

\* get_order_history is entered: the arguments are bound
CallOrders(ot, sym, sd) ==
    /\ pc = "idle"
    /\ pc' = "ensure_session_orders"
    /\ mode' = "orders"
    /\ order_type' = ot /\ symbol' = sym /\ start_date' = sd
    /\ UNCHANGED <<clientVars, calls, session_checks, returned, raised, message,
                   caught, next_item, raw_orders, stock_orders, option_orders,
                   crypto_orders>>
    /\ OrdersFrame

\* line 34: self.client.ensure_session(), the first statement; then the
\* order type is normalised and validated (lines 36-41)
EnsureSessionOrders(login) ==
    /\ pc = "ensure_session_orders"
    /\ session_checks' = session_checks + 1
    /\ LET session == ensure_session(login)
           ot == NormalisedType(order_type)
       IN  /\ ClientAfter(session)
           /\ IF ~session.ok
              THEN Raise(session.exc, session.msg) /\ UNCHANGED order_type
              ELSE /\ order_type' = ot
                   /\ IF ot \notin valid_types
                      THEN Raise("InvalidArgumentError", InvalidTypeMessage(ot))
                      ELSE Proceed(IF FetchesStock(ot) THEN "get_all_stock_orders"
                                   ELSE AfterStock(ot), <<>>, <<>>, <<>>)
    /\ UNCHANGED <<symbol, start_date, mode, calls, next_item, raw_orders,
                   stock_orders, option_orders, crypto_orders>>
    /\ OrdersFrame

\* _get_stock_orders, lines 74-76: rh.get_all_stock_orders(start_date)
GetAllStockOrders(resp) ==
    /\ pc = "get_all_stock_orders"
    /\ calls' = Append(calls, [fn |-> "get_all_stock_orders", start_date |-> start_date])
    /\ IF resp.exc # NoError
       THEN FailOrders(resp.exc) /\ UNCHANGED <<raw_orders, next_item>>
       ELSE IF resp.data = <<>>
       THEN /\ Proceed(AfterStock(order_type), <<>>, <<>>, <<>>)
            /\ UNCHANGED <<raw_orders, next_item>>
       ELSE /\ raw_orders' = resp.data
            /\ next_item' = 1
            /\ pc' = "stock_order_loop"
            /\ UNCHANGED <<returned, raised, message, caught>>
    /\ UNCHANGED <<clientVars, symbol, order_type, start_date, mode, session_checks,
                   stock_orders, option_orders, crypto_orders>>
    /\ OrdersFrame

\* line 202: the order names its instrument
HasInstrument(item) == IsRecord(item) /\ ~Falsy(Get(item, "instrument", None))

\* one turn of the loop of _get_stock_orders (lines 79-119): the order,
\* the lookup of its instrument when it names one, the symbol filter
ResolveStockOrder(resp) ==
    /\ pc = "stock_order_loop"
    /\ LET item == raw_orders[next_item]
           lookup == HasInstrument(item)
           order_symbol == IF lookup THEN ResolvedSymbol(resp) ELSE None
           orders == IF ~IsRecord(item) \/ FilteredOut(symbol, order_symbol)
                     THEN stock_orders
                     ELSE Append(stock_orders, StockOrder(item, order_symbol))
       IN  /\ IF lookup
              THEN /\ resp \in InstrumentByUrl(item.instrument)
                   /\ calls' = Append(calls, [fn |-> "get_instrument_by_url",
                                              url |-> item.instrument])
              ELSE /\ resp = NotCalled
                   /\ UNCHANGED calls
           /\ stock_orders' = orders
           /\ IF next_item < Len(raw_orders)
              THEN /\ next_item' = next_item + 1
                   /\ UNCHANGED <<pc, raw_orders, returned, raised, message, caught>>
              ELSE /\ next_item' = 0
                   /\ raw_orders' = <<>>
                   /\ Proceed(AfterStock(order_type), orders, <<>>, <<>>)
    /\ UNCHANGED <<clientVars, symbol, order_type, start_date, mode, session_checks,
                   option_orders, crypto_orders>>
    /\ OrdersFrame

\* _get_option_orders, lines 128-163: rh.get_all_option_orders(start_date)
GetAllOptionOrders(resp) ==
    /\ pc = "get_all_option_orders"
    /\ calls' = Append(calls, [fn |-> "get_all_option_orders", start_date |-> start_date])
    /\ IF resp.exc # NoError
       THEN FailOrders(resp.exc) /\ UNCHANGED option_orders
       ELSE LET orders == OptionOrders(resp.data, symbol)
            IN  /\ option_orders' = orders
                /\ Proceed(AfterOption(order_type), stock_orders, orders, <<>>)
    /\ UNCHANGED <<clientVars, symbol, order_type, start_date, mode, session_checks,
                   next_item, raw_orders, stock_orders, crypto_orders>>
    /\ OrdersFrame

\* _get_crypto_orders, lines 170-197: rh.get_all_crypto_orders(), which
\* takes no start date
GetAllCryptoOrders(resp) ==
    /\ pc = "get_all_crypto_orders"
    /\ calls' = Append(calls, [fn |-> "get_all_crypto_orders"])
    /\ IF resp.exc # NoError
       THEN FailOrders(resp.exc) /\ UNCHANGED crypto_orders
       ELSE LET orders == CryptoOrders(resp.data)
            IN  /\ crypto_orders' = orders
                /\ Proceed("return", stock_orders, option_orders, orders)
    /\ UNCHANGED <<clientVars, symbol, order_type, start_date, mode, session_checks,
                   next_item, raw_orders, stock_orders, option_orders>>
    /\ OrdersFrame

OrdersNext ==
    \/ \E ot \in OrderTypes, sym \in SymbolFilters, sd \in StartDates :
          CallOrders(ot, sym, sd)
    \/ \E login \in LoginOutcomes : EnsureSessionOrders(login)
    \/ \E resp \in StockOrderResponses : GetAllStockOrders(resp)
    \/ \E resp \in {NotCalled} \cup UNION {InstrumentByUrl(u) : u \in InstrumentUrls} :
          ResolveStockOrder(resp)
    \/ \E resp \in OptionOrderResponses : GetAllOptionOrders(resp)
    \/ \E resp \in CryptoOrderResponses : GetAllCryptoOrders(resp)
    \/ Finish
    \/ \E rh_raises \in BOOLEAN, unlink_raises \in BOOLEAN :
          Logout(rh_raises, unlink_raises)

SpecOrders == Init /\ [][OrdersNext]_vars

\* ------------------------------------------------------------------
\* The client called directly: any sequence of ensure_session and logout
\* ------------------------------------------------------------------
MaxCalls == 3

ClientInit ==
    /\ authenticated = FALSE
    /\ credentials \in ClientCredentials
    /\ session_path \in SessionPaths
    /\ login_result = NotInvoked
    /\ ServiceIdle

\* what client_log keeps of one call
LogEntry(op, login, exc, after, rh_raises, pickle, unlink_raises) ==
    [op |-> op, before |-> authenticated, login |-> login, raised |-> exc,
     after |-> after, rh_raises |-> rh_raises, pickle |-> pickle,
     unlink_raises |-> unlink_raises]

\* client.ensure_session() (client.py lines 46-112)
ClientEnsureSession(login) ==
    /\ Len(client_log) < MaxCalls
    /\ LET session == ensure_session(login)
       IN  /\ ClientAfter(session)
           /\ client_log' = Append(client_log,
                  LogEntry("ensure_session", session.login, session.exc,
                           session.ok, FALSE, FALSE, FALSE))
    /\ UNCHANGED <<pc, argVars, exp, mode, types_to_fetch, contracts, origin,
                   options_data, chains_data, prices, md_log, calls,
                   session_checks, returned, raised, message, caught>>
    /\ UNCHANGED <<positionVars, orderVars, workers, login_calls, serverVars>>

\* client.logout() (client.py lines 114-129): rh.logout raises or not,
\* the pickle file is there or not, its removal raises or not
ClientLogout(rh_raises, pickle, unlink_raises) ==
    /\ Len(client_log) < MaxCalls
    /\ LET out == logout(rh_raises, unlink_raises)
       IN  /\ authenticated' = out.authenticated
           /\ client_log' = Append(client_log,
                  LogEntry("logout", NotInvoked, out.raised, out.authenticated,
                           rh_raises, pickle, unlink_raises))
    /\ UNCHANGED <<credentials, session_path, login_result>>
    /\ UNCHANGED <<pc, argVars, exp, mode, types_to_fetch, contracts, origin,
                   options_data, chains_data, prices, md_log, calls,
                   session_checks, returned, raised, message, caught>>
    /\ UNCHANGED <<positionVars, orderVars, workers, login_calls, serverVars>>

ClientNext ==
    \/ \E login \in LoginResults : ClientEnsureSession(login)
    \/ \E rh_raises \in BOOLEAN, pickle \in BOOLEAN, unlink_raises \in BOOLEAN :
          ClientLogout(rh_raises, pickle, unlink_raises)

SpecClient == ClientInit /\ [][ClientNext]_vars

\* ------------------------------------------------------------------
\* ensure_session on worker threads: call_tool hands the service
\* operations to asyncio.to_thread, and all services share one client
\* ------------------------------------------------------------------
\* what is left unchanged by a step of a worker thread
WorkerFrame ==
    /\ UNCHANGED <<pc, argVars, exp, mode, types_to_fetch, contracts, origin,
                   options_data, chains_data, prices, md_log, calls,
                   session_checks, returned, raised, message, caught>>
    /\ UNCHANGED <<positionVars, orderVars, client_log, serverVars>>

\* lines 57-89: the thread reads the flag and the credentials and, with
\* the flag False and the credentials set, calls rh.login, a network
\* request during which the other threads run
WorkerEnter(w) ==
    /\ workers[w].at = "outside"
    /\ IF SessionActive(authenticated)
       THEN /\ workers' = [workers EXCEPT ![w] =
                   [at |-> "returned", login |-> NotInvoked, raised |-> NoError]]
            /\ UNCHANGED login_calls
       ELSE IF CredentialsMissing(credentials)
       THEN /\ workers' = [workers EXCEPT ![w] =
                   [at |-> "returned", login |-> NotInvoked,
                    raised |-> "AuthRequiredError"]]
            /\ UNCHANGED login_calls
       ELSE /\ workers' = [workers EXCEPT ![w].at = "rh.login"]
            /\ login_calls' = login_calls + 1
    /\ UNCHANGED clientVars
    /\ WorkerFrame

\* lines 89-112: rh.login of the thread results in `login`; the thread
\* sets the flag or raises
WorkerLogin(w, login) ==
    /\ workers[w].at = "rh.login"
    /\ LET session == after_login(login)
       IN  /\ workers' = [workers EXCEPT ![w] =
                  [at |-> "returned", login |-> login, raised |-> session.exc]]
           /\ authenticated' = (authenticated \/ session.ok)
           /\ login_result' = login
    /\ UNCHANGED <<credentials, session_path, login_calls>>
    /\ WorkerFrame

ThreadsNext ==
    \/ \E w \in Workers : WorkerEnter(w)
    \/ \E w \in Workers, login \in LoginResults : WorkerLogin(w, login)

SpecThreads == ClientInit /\ [][ThreadsNext]_vars

\* the key is there and its value is not null
Carries(item, k) == k \in DOMAIN item /\ item[k] # None

Built == pc = "built" /\ raised = NoError

\* C11 as stated: a record that carries both marks gets its mark_price
\* from the adjusted mark
C11_AdjustedMarkWhenBoth ==
    Built /\ Carries(options_data[1], "adjusted_mark_price")
          /\ Carries(options_data[1], "mark_price")
    => contracts[1].mark_price =
           coerce_numeric(options_data[1].adjusted_mark_price)

\* C11: mark_price is the adjusted mark whenever the record carries a
\* non-empty one, also next to a plain mark and also when it is not a
\* number; the plain mark is used when the adjusted mark is absent, null
\* or empty
C11_AdjustedMarkWhenNonEmpty ==
    Built =>
        LET item == options_data[1]
            adjusted == Carries(item, "adjusted_mark_price")
                        /\ item.adjusted_mark_price # ""
        IN  contracts[1].mark_price =
                IF adjusted THEN coerce_numeric(item.adjusted_mark_price)
                ELSE coerce_numeric(Get(item, "mark_price", None))

C11_Witness ==
    /\ Built
    /\ Get(options_data[1], "adjusted_mark_price", None) = "2.40"
    /\ Get(options_data[1], "mark_price", None) = "3.60"
    /\ contracts[1].mark_price = SomeFloat(240)

\* a record whose strike is there and is not a number
NonNumericStrike(item) ==
    /\ IsRecord(item)
    /\ Carries(item, "strike_price")
    /\ ~IsNumeric(item.strike_price)

ListingDone == pc = "done" /\ mode = "listing" /\ prices # NotCalled

\* C12: a listing call with a reference price whose listing holds an
\* entry with a non-numeric strike does not raise and returns that entry
\* among its records.
C12_NonNumericStrikeReturned ==
    (ListingDone /\ PriceGiven /\ ReferenceCents > 0
        /\ \E i \in 1..Len(options_data) : NonNumericStrike(options_data[i])) =>
        /\ raised = NoError
        /\ \E i \in 1..Len(returned) : returned[i].strike.isNone

\* a listing entry that has everything a record needs, numeric or not:
\* a strike that is not null and no null symbol or expiration
CompleteEntry(item) ==
    IsRecord(item) =>
        /\ Carries(item, "strike_price")
        /\ Get(item, "chain_symbol", symbol) # None
        /\ Get(item, "expiration_date", exp) # None

\* C13: a listing call whose entries are complete does not raise,
\* whatever non-numeric strings their numeric fields hold: the field is
\* null in the record and every entry the filter retains is returned.
C13_MalformedNumericTolerated ==
    (ListingDone /\ \A i \in 1..Len(options_data) : CompleteEntry(options_data[i])) =>
        /\ raised = NoError
        /\ Len(returned) = Len(Retained(options_data, GetCurrentPrice(prices)))

\* the response of the request the call ended on raised exc
LastRequestRaised(exc) ==
    \/ chains_data # NotCalled /\ chains_data.exc = exc
    \/ md_log # <<>> /\ md_log[Len(md_log)].exc = exc

\* C14 as stated: a get_options_chain call that fails raises
\* InvalidArgumentError, AuthRequiredError or RobinhoodAPIError, whatever
\* step failed.
C14_ThreeKinds ==
    (ChainDone /\ raised # NoError) =>
        raised \in {"InvalidArgumentError", "AuthRequiredError", "RobinhoodAPIError"}

\* C14: a get_options_chain call that fails raises one of four kinds.
\* NetworkError comes from the session check alone, before any request,
\* and carries the message of the login failure; once the session is
\* established every failure that is not an argument or auth error is a
\* RobinhoodAPIError whose message ends with the original one.
C14_FourKinds ==
    (ChainDone /\ raised # NoError) =>
        /\ raised \in {"InvalidArgumentError", "AuthRequiredError",
                       "NetworkError", "RobinhoodAPIError"}
        /\ raised = "NetworkError" =>
              /\ calls = <<>> /\ session_checks = 1 /\ ~authenticated
              /\ message = "Failed to authenticate: login timed out"
        /\ raised = "RobinhoodAPIError" =>
              /\ authenticated /\ calls # <<>>
              /\ message \in {"Failed to fetch options chain: " \o Str(e) :
                                 e \in {"ConnectionError", "ValidationError"}}
        /\ LastRequestRaised("ConnectionError") =>
              /\ raised = "RobinhoodAPIError"
              /\ message = "Failed to fetch options chain: connection reset"

C14_Witness ==
    /\ ChainDone /\ raised = "RobinhoodAPIError"
    /\ LastRequestRaised("ConnectionError")
    /\ message = "Failed to fetch options chain: connection reset"

ServiceErrors == {"AuthRequiredError", "InvalidArgumentError"}

\* the session check of the call failed
SessionCheckFailed == session_checks = 1 /\ ~authenticated

\* an instrument lookup of a get_option_positions call raised exc
LookupRaised(exc) ==
    /\ mode = "positions"
    /\ \E i \in 1..Len(origin) : origin[i].lookup.exc = exc

\* the reference-price request of a get_options_chain call raised exc
PriceRequestRaised(exc) == prices # NotCalled /\ prices.exc = exc

\* C15 as stated: an AuthRequiredError or InvalidArgumentError raised by
\* the session check or by any nested call of get_options_chain or
\* get_option_positions is what the call raises.
C15_ServiceErrorsNeverLost ==
    pc = "done" =>
        /\ SessionCheckFailed => raised # "RobinhoodAPIError"
        /\ \A e \in ServiceErrors :
              (caught = e \/ LastRequestRaised(e) \/ PriceRequestRaised(e)
                  \/ LookupRaised(e)) => raised = e

\* C15: an AuthRequiredError or InvalidArgumentError of the session check
\* or of a request made in the try block of get_options_chain or
\* get_option_positions is what the call raises, with its own message.
\* The reference-price request and the instrument lookups are the
\* exception: what they raise, of any kind, is swallowed.
C15_ServiceErrorsPropagate ==
    pc = "done" =>
        /\ SessionCheckFailed =>
              raised \in {"AuthRequiredError", "NetworkError"} /\ caught = NoError
        /\ \A e \in ServiceErrors :
              /\ LastRequestRaised(e) => caught = e
              /\ caught = e => raised = e /\ message = Str(e)
        /\ \A e \in UpstreamExceptions :
              /\ PriceRequestRaised(e) => caught \in {NoError, "ValidationError"}
              /\ LookupRaised(e) => raised = NoError

C15_Witness ==
    /\ pc = "done" /\ mode = "positions"
    /\ caught = "AuthRequiredError" /\ raised = "AuthRequiredError"
    /\ message = "session expired"

\* a get_option_positions call has returned
PositionsReturned == pc = "done" /\ mode = "positions" /\ raised = NoError

\* the values a position takes from its holding
FromHolding(position, item) ==
    /\ position.direction = Get(item, "type", None)
    /\ position.quantity = coerce_numeric(Get(item, "quantity", None))
    /\ position.average_price = coerce_numeric(Get(item, "average_price", None))
    /\ position.created_at = Get(item, "created_at", None)
    /\ position.updated_at = Get(item, "updated_at", None)

\* C16: a call whose instrument lookups raise still returns: it yields one
\* position per holding; a position whose lookup raised has its
\* direction, quantity, average price and timestamps from the holding and
\* a null strike, expiration and type, and a position whose lookup gave
\* an instrument has the strike, expiration and type of that instrument.
C16_LookupFailureTolerated ==
    (pc = "done" /\ mode = "positions" /\ origin # <<>>) =>
        /\ raised = NoError
        /\ Len(returned) = Len(origin)
        /\ \A i \in 1..Len(origin) :
              /\ FromHolding(returned[i], origin[i].item)
              /\ origin[i].lookup.exc \in UpstreamExceptions =>
                    /\ returned[i].strike_price = NoFloat
                    /\ returned[i].expiration_date = None
                    /\ returned[i].option_type = None
                    /\ returned[i].symbol = Get(origin[i].item, "chain_symbol", None)
              /\ (origin[i].lookup.exc = NoError
                     /\ IsRecord(origin[i].lookup.instrument)) =>
                    /\ returned[i].strike_price =
                           coerce_numeric(origin[i].lookup.instrument.strike_price)
                    /\ returned[i].expiration_date =
                           origin[i].lookup.instrument.expiration_date
                    /\ returned[i].option_type = origin[i].lookup.instrument.type

C16_Witness ==
    /\ PositionsReturned /\ Len(returned) = 2
    /\ origin[1].lookup.exc = "ConnectionError"
    /\ returned[1].strike_price = NoFloat /\ returned[1].direction = "short"
    /\ returned[1].quantity = SomeFloat(240)
    /\ origin[2].lookup.exc = NoError
    /\ returned[2].strike_price = SomeFloat(360)

\* the holding carries a non-empty option reference
HasReference(item) ==
    IsRecord(item) /\ "option" \in DOMAIN item /\ item.option \notin {None, ""}

\* the identifier at the end of an option reference of the model
ReferenceId(item) ==
    IF item.option = "https://api.robinhood.com/options/instruments/abc-123/"
    THEN "abc-123" ELSE "def-456"

\* C17: a call that returns yields one position per non-null holding, in
\* upstream order, after one holdings request followed by one instrument
\* lookup per holding with an option reference, in upstream order, and
\* none for a holding without one.
C17_OneRecordOneLookup ==
    PositionsReturned =>
        LET records == SelectSeq(positions_data, IsRecord)
            referenced == SelectSeq(positions_data, HasReference)
            lookups == RequestsOf("get_option_instrument_data_by_id")
        IN  /\ Len(returned) = Len(records)
            /\ \A i \in 1..Len(records) : FromHolding(returned[i], records[i])
            /\ calls[1].fn = "get_open_option_positions"
            /\ CountOf("get_open_option_positions") = 1
            /\ Len(calls) = 1 + Len(referenced)
            /\ Len(lookups) = Len(referenced)
            /\ \A i \in 1..Len(referenced) : lookups[i].id = ReferenceId(referenced[i])

C17_Witness ==
    /\ PositionsReturned
    /\ Len(positions_data) = 2 /\ Len(returned) = 2
    /\ HasReference(positions_data[1]) /\ ~HasReference(positions_data[2])
    /\ Len(calls) = 2

StartsWith(s, prefix) ==
    Len(s) >= Len(prefix) /\ SubSeq(s, 1, Len(prefix)) = prefix

\* the kind the error text is to start with
KindOf ==
    [e \in ServiceExceptions \cup {"KeyError"} |->
        CASE e = "AuthRequiredError" -> "AUTH_REQUIRED"
          [] e = "InvalidArgumentError" -> "INVALID_ARGUMENT"
          [] e = "RobinhoodAPIError" -> "ROBINHOOD_ERROR"
          [] e = "NetworkError" -> "NETWORK_ERROR"
          [] OTHER -> "INTERNAL_ERROR"]

\* the handler of t has returned after an exception
FailedCall(t) ==
    tasks[t].state = "returned" /\ tasks[t].outcome \in DOMAIN KindOf

\* C18 as stated: a call that failed has returned one payload, a JSON
\* object whose error text starts with the kind of the exception.
C18_ErrorTextStartsWithKind ==
    \A t \in Tasks :
        FailedCall(t) =>
            /\ Len(tasks[t].payloads) = 1
            /\ "error" \in DOMAIN tasks[t].payloads[1]
            /\ StartsWith(tasks[t].payloads[1].error,
                          KindOf[tasks[t].outcome] \o ": ")

\* C18: whatever the tool name, the arguments and the outcome of the
\* service, the handler returns exactly one payload.  After an exception
\* the payload is a JSON object whose error text is the kind of the
\* exception, ": " and its message, except for robinhood.auth.status
\* after an AuthRequiredError, whose payload is authenticated = false
\* with the error text "Authentication required"; for a name without a
\* branch the error text is "Unknown tool: " and the name.
C18_OnePayloadPerCall ==
    [][\A t \in Tasks :
          (tasks[t].state # "returned" /\ tasks'[t].state = "returned") =>
              LET name == tasks[t].name
                  outcome == tasks'[t].outcome
                  payloads == tasks'[t].payloads
              IN  /\ Len(payloads) = 1
                  /\ outcome \in DOMAIN KindOf =>
                        IF name = "robinhood.auth.status"
                           /\ outcome = "AuthRequiredError"
                        THEN payloads[1] = [authenticated |-> "false",
                                            error |-> "Authentication required"]
                        ELSE /\ DOMAIN payloads[1] = {"error"}
                             /\ payloads[1].error =
                                    KindOf[outcome] \o ": " \o ErrorMessage(outcome)
                  /\ outcome = "unknown" =>
                        payloads[1] = [error |-> "Unknown tool: " \o name]
                  /\ outcome = "return" => "error" \notin DOMAIN payloads[1]]_vars

C18_Witness ==
    \E t \in Tasks :
        /\ FailedCall(t) /\ tasks[t].outcome = "NetworkError"
        /\ tasks[t].payloads =
               <<[error |-> "NETWORK_ERROR: Failed to authenticate: login timed out"]>>

\* the service operation of t is running
InFlight(t) == tasks[t].state \in {"awaiting_thread", "blocking"}

\* C19: while the service operation of a call is running the event loop
\* is free, so that the handler of another call that is ready can start.
C19_LoopNeverBlocked ==
    \A t \in Tasks : InFlight(t) => loop_running = 0

\* some upstream request of the call has raised
RequestFailed ==
    \/ caught \in UpstreamExceptions
    \/ PriceRequestRaised("ConnectionError")
    \/ PriceRequestRaised("AuthRequiredError")

\* C20: a get_options_chain call makes no request twice: at most one
\* expirations, one listing and one reference-price request and at most
\* one market-data request per option type; and once a request has
\* raised, the call makes no further request.
C20_NoRetries ==
    /\ [](ChainCall =>
            /\ CountOf("get_chains") <= 1
            /\ CountOf("find_tradable_options") <= 1
            /\ CountOf("get_latest_price") <= 1
            /\ \A i, j \in 1..Len(calls) : i # j => calls[i] # calls[j])
    /\ [][(ChainCall /\ RequestFailed) => Len(calls') <= Len(calls)]_vars

C20_Witness ==
    /\ ChainCall /\ pc = "done"
    /\ caught = "ConnectionError"
    /\ CountOf("get_chains") = 1 /\ CountOf("get_option_market_data") = 2
    /\ Len(calls) = 3

\* ------------------------------------------------------------------
\* Properties of the client called directly (SpecClient)
\* ------------------------------------------------------------------
Logged == 1..Len(client_log)

IsEnsure(i) == client_log[i].op = "ensure_session"
IsLogout(i) == client_log[i].op = "logout"

\* no logout among the calls i..j
NoLogoutBetween(i, j) == \A k \in i..j : ~IsLogout(k)

\* call i is an ensure_session that returned
Succeeded(i) == IsEnsure(i) /\ client_log[i].raised = NoError

\* C22: once an ensure_session call has returned, every later
\* ensure_session call with no logout in between returns without calling
\* rh.login; so a stretch of calls without logout holds at most one
\* rh.login call that returned a truthy result, however long it is
C22_LoginOnceUntilLogout ==
    /\ \A i \in Logged : \A j \in Logged :
          (i < j /\ Succeeded(i) /\ NoLogoutBetween(i, j)) =>
              /\ client_log[j].login = NotInvoked
              /\ client_log[j].raised = NoError
    /\ \A i \in Logged : \A j \in Logged :
          (i < j /\ NoLogoutBetween(i, j) /\ client_log[i].login = "truthy") =>
              client_log[j].login # "truthy"

\* a failed login, the login that succeeds, then a call that is
\* answered from the flag
C22_Witness ==
    /\ Len(client_log) = 3
    /\ NoLogoutBetween(1, 3)
    /\ client_log[1].login = "falsy"
    /\ client_log[2].login = "truthy"
    /\ client_log[3].login = NotInvoked /\ client_log[3].raised = NoError

\* C24: ensure_session on an unauthenticated client whose username or
\* password is missing raises AuthRequiredError, does not call rh.login
\* and leaves the client unauthenticated
C24_MissingCredentialsRefused ==
    \A i \in Logged :
        (/\ IsEnsure(i)
         /\ ~client_log[i].before
         /\ (Falsy(credentials.username) \/ Falsy(credentials.password))) =>
            /\ client_log[i].raised = "AuthRequiredError"
            /\ client_log[i].login = NotInvoked
            /\ ~client_log[i].after

\* the username is set, the password is not
C24_Witness ==
    /\ ~Falsy(credentials.username) /\ Falsy(credentials.password)
    /\ Len(client_log) >= 2
    /\ IsEnsure(1) /\ client_log[1].raised = "AuthRequiredError"
    /\ IsEnsure(2) /\ client_log[2].raised = "AuthRequiredError"
    /\ ~authenticated

\* rh.login raised (it neither returned a truthy nor a falsy value)
LoginRaised(i) == client_log[i].login \notin {NotInvoked, "truthy", "falsy"}

\* the message of what rh.login raised holds the word in any case
SaysChallenge(i) == Contains(lower(Str(client_log[i].login)), "challenge")

\* C25: every failure of rh.login is turned into exactly one error: a
\* falsy result and an exception that says "challenge" (in any case) into
\* AuthRequiredError, any other exception into NetworkError; and
\* ensure_session raises nothing but these two
C25_LoginFailureClassified ==
    \A i \in Logged : IsEnsure(i) =>
        /\ client_log[i].raised \in {NoError, "AuthRequiredError", "NetworkError"}
        /\ client_log[i].login = "truthy" => client_log[i].raised = NoError
        /\ client_log[i].login = "falsy" =>
              client_log[i].raised = "AuthRequiredError"
        /\ (LoginRaised(i) /\ SaysChallenge(i)) =>
              client_log[i].raised = "AuthRequiredError"
        /\ (LoginRaised(i) /\ ~SaysChallenge(i)) =>
              client_log[i].raised = "NetworkError"

\* the three failures, the challenge spelled with a capital
C25_Witness ==
    /\ Len(client_log) = 3
    /\ client_log[1].login = "falsy" /\ client_log[1].raised = "AuthRequiredError"
    /\ client_log[2].login = "Challenge" /\ client_log[2].raised = "AuthRequiredError"
    /\ client_log[3].login = "error" /\ client_log[3].raised = "NetworkError"

\* C26: logout never raises and leaves the client unauthenticated,
\* whether rh.logout or the removal of the pickle file raise and whether
\* or not there is a session path or a pickle file; the ensure_session
\* that follows a logout calls rh.login (on a client that has the
\* credentials to do so)
C26_LogoutClearsSession ==
    /\ \A i \in Logged : IsLogout(i) =>
          /\ client_log[i].raised = NoError
          /\ ~client_log[i].after
    /\ \A i \in Logged :
          (/\ i > 1 /\ IsLogout(i - 1) /\ IsEnsure(i)
           /\ ~Falsy(credentials.username) /\ ~Falsy(credentials.password)) =>
              client_log[i].login # NotInvoked

\* a session, a logout during which rh.logout raises and there is no
\* pickle file to remove, and the login that follows
C26_Witness ==
    /\ Len(client_log) = 3
    /\ Succeeded(1) /\ client_log[1].login = "truthy"
    /\ IsLogout(2) /\ client_log[2].before /\ client_log[2].rh_raises
    /\ ~client_log[2].pickle /\ ~client_log[2].after
    /\ IsEnsure(3) /\ client_log[3].login = "truthy"

\* ------------------------------------------------------------------
\* Properties of ensure_session on worker threads (SpecThreads)
\* ------------------------------------------------------------------
\* C28: two tool calls that run ensure_session at the same time on
\* worker threads, against the one unauthenticated client and with
\* credentials that rh.login accepts (no call fails), invoke rh.login at
\* most once between them
C28_LoginAtMostOnce ==
    (\A w \in Workers : workers[w].raised = NoError) => login_calls <= 1

\* ------------------------------------------------------------------
\* Properties of get_order_history (SpecOrders)
\* ------------------------------------------------------------------
OrdersDone == pc = "done" /\ mode = "orders"

\* the session check of the call went through
SessionPassed == session_checks = 1 /\ authenticated

\* the order type of the call, as the code compares it
Selected == lower(IF Falsy(order_type) THEN "all" ELSE order_type)

OrderFetches == {"get_all_stock_orders", "get_all_option_orders", "get_all_crypto_orders"}

\* C21: an InvalidArgument error is raised before any upstream
\* interaction: when a call ends with it, no session check (hence no
\* login) and no data request has happened
C21_InvalidArgumentBeforeUpstream ==
    (OrdersDone /\ raised = "InvalidArgumentError") =>
        (session_checks = 0 /\ calls = <<>>)

MatchesFilter(s) == s # None /\ upper(s) = upper(symbol)

\* C30: with a symbol filter, every stock order and every option order of
\* the result is of that symbol
C30_OnlyFilteredSymbol ==
    (OrdersDone /\ raised = NoError /\ ~Falsy(symbol)) =>
        /\ \A i \in 1..Len(returned[1].stock_orders) :
              MatchesFilter(returned[1].stock_orders[i].symbol)
        /\ \A i \in 1..Len(returned[1].option_orders) :
              MatchesFilter(returned[1].option_orders[i].chain_symbol)

\* ------------------------------------------------------------------
\* Properties of the session (Spec)
\* ------------------------------------------------------------------
\* the call got past the validation of its arguments
PassedValidation == pc # "idle" /\ (mode = "positions" \/ ~Falsy(symbol))

\* C23: a service operation that passes the validation of its arguments
\* invokes ensure_session exactly once, before any upstream data request;
\* when ensure_session raises, the operation makes no data request
C23_SessionCheckedOnceFirst ==
    /\ session_checks <= 1
    /\ calls # <<>> => SessionPassed
    /\ (PassedValidation /\ pc \notin {"ensure_session", "ensure_session_positions"}) =>
          session_checks = 1
    /\ (session_checks = 1 /\ ~authenticated) =>
          /\ pc = "done" /\ calls = <<>>
          /\ raised \in {"AuthRequiredError", "NetworkError"}

\* a positions call that made two requests after its one session check
C23_Witness ==
    /\ pc = "done" /\ mode = "positions"
    /\ session_checks = 1
    /\ Len(calls) >= 2

====
